---- MODULE Spec2Model ----
(***************************************************************************)
(* Model of the ai-review service of utsav-mistry/Shard.                   *)
(*                                                                         *)
(* ResultProcessor (app/result_processor.py) is a stateless object with    *)
(* two public methods, merge_results and generate_verdict.  Each is a pure *)
(* function of its arguments; each is modelled by an operator that         *)
(* computes what the Python computes, and by an action that applies it to  *)
(* arguments drawn from bounded sets.                                      *)
(*                                                                         *)
(* Python strings on which the code does string work (lower(), slicing,    *)
(* concatenation, ordering) are sequences of one-character strings.        *)
(* Strings the code only tests for equality (tool, code, suggestion,       *)
(* service, verdict) are TLA+ strings.  A Python dict is a TLA+ record; a  *)
(* key the dict lacks is a field the record lacks.                         *)
(***************************************************************************)
EXTENDS Integers, Sequences, FiniteSets, TLC

VARIABLES
  pc,               \* position of the caller: "call_merge", "merged", "call_verdict", "done"
  linter_issues,    \* merge_results argument
  deepseek_issues,  \* merge_results argument
  all_issues,       \* merge_results local: normalized_linter + normalized_deepseek
  deduplicated,     \* merge_results local
  sorted_issues,    \* merge_results return value
  issues,           \* generate_verdict argument
  service,          \* generate_verdict argument
  verdict_result,   \* generate_verdict outcome
  sev_arg,          \* _map_severity argument
  sev_mapped,       \* _map_severity return value
  sev_remapped,     \* _map_severity of that return value
  val_issue,        \* _validate_issue argument
  val_file_path,    \* _validate_issue argument
  val_result,       \* _validate_issue outcome: the value returned or the exception raised
  response_text,    \* _clean_and_parse_json argument; the text the model returns
  parsed_issues,    \* _clean_and_parse_json outcome
  model_available,  \* _run_ai_analysis: what _ensure_model_loaded returns
  model_output,     \* _run_ai_analysis: the text self.model(...) returns, or the exception it raises
  ai_file_path,     \* _run_ai_analysis argument
  ai_result,        \* _run_ai_analysis outcome
  important_files,  \* CodeReviewView.post, per request: the files still to analyze
  ai_runner,        \* CodeReviewView.post, per request: the ModelRunner and its model
  response,         \* CodeReviewView.post, per request: the response returned
  loaded_models,    \* model_manager._loaded_models, shared by all requests
  files_info,       \* _build_dependency_graph argument: the collected files, in dict order
  dependencies,     \* _build_dependency_graph return value
  context_parts,    \* get_enhanced_context_for_ai local
  max_context_length, \* get_enhanced_context_for_ai argument
  full_context,     \* get_enhanced_context_for_ai local, as joined on line 454
  enhanced_context  \* get_enhanced_context_for_ai outcome

merge_vars == <<linter_issues, deepseek_issues, all_issues, deduplicated,
                sorted_issues, issues, service, verdict_result>>

sev_vars == <<sev_arg, sev_mapped, sev_remapped>>

val_vars == <<val_issue, val_file_path, val_result>>

parse_vars == <<response_text, parsed_issues>>

ai_vars == <<model_available, model_output, ai_file_path, ai_result>>

review_vars == <<important_files, ai_runner, response, loaded_models>>

graph_vars == <<files_info, dependencies>>

context_vars == <<context_parts, max_context_length, full_context, enhanced_context>>

analyzer_vars == <<graph_vars, context_vars>>

vars == <<pc, merge_vars, sev_vars, val_vars, parse_vars, ai_vars, review_vars,
          analyzer_vars>>

-----------------------------------------------------------------------------
(* Python string and dict primitives *)

UpperChars == <<"A","B","C","D","E","F","G","H","I","J","K","L","M",
                "N","O","P","Q","R","S","T","U","V","W","X","Y","Z">>

LowerChars == <<"a","b","c","d","e","f","g","h","i","j","k","l","m",
                "n","o","p","q","r","s","t","u","v","w","x","y","z">>

\* The characters the model's strings use, in code point order.
CodePoints == <<" ", "-", ".", "/", "0","1","2","3","4","5","6","7","8","9", ":">>
              \o UpperChars \o <<"_">> \o LowerChars

Digits == <<"0","1","2","3","4","5","6","7","8","9">>

OrdOf == [c \in {CodePoints[i] : i \in 1..Len(CodePoints)} |->
            CHOOSE i \in 1..Len(CodePoints) : CodePoints[i] = c]

ord(c) == OrdOf[c]

\* The lower-case letter of each upper-case letter
LowerOf == [c \in {UpperChars[i] : i \in 1..Len(UpperChars)} |->
              LowerChars[CHOOSE i \in 1..Len(UpperChars) : UpperChars[i] = c]]

lower_char(c) == IF c \in DOMAIN LowerOf THEN LowerOf[c] ELSE c

\* str.lower()
lower(s) == [i \in 1..Len(s) |-> lower_char(s[i])]

\* s[:n]
slice_to(s, n) == SubSeq(s, 1, IF Len(s) < n THEN Len(s) ELSE n)

\* str < str: the first differing character decides, a proper prefix is smaller
str_less(s, t) ==
  \E k \in 1..(Len(t)) :
     /\ \A j \in 1..(k - 1) : j <= Len(s) /\ s[j] = t[j]
     /\ k - 1 <= Len(s)
     /\ \/ k > Len(s)
        \/ ord(s[k]) < ord(t[k])

\* str(n) for an int n >= 0, as in an f-string
RECURSIVE str_int(_)
str_int(n) ==
  IF n < 10 THEN <<Digits[n + 1]>>
  ELSE str_int(n \div 10) \o <<Digits[(n % 10) + 1]>>

\* dict.get(key, default)
get(d, key, default) == IF key \in DOMAIN d THEN d[key] ELSE default

-----------------------------------------------------------------------------
(* String literals of result_processor.py *)

s_security == <<"s","e","c","u","r","i","t","y">>
s_error    == <<"e","r","r","o","r">>
s_warning  == <<"w","a","r","n","i","n","g">>
s_style    == <<"s","t","y","l","e">>
s_info     == <<"i","n","f","o">>
s_high     == <<"h","i","g","h">>
s_medium   == <<"m","e","d","i","u","m">>
s_low      == <<"l","o","w">>
s_critical == <<"c","r","i","t","i","c","a","l">>
s_major    == <<"m","a","j","o","r">>
s_minor    == <<"m","i","n","o","r">>
s_trivial  == <<"t","r","i","v","i","a","l">>
s_empty    == <<>>

-----------------------------------------------------------------------------
(* ResultProcessor *)

\* SEVERITY_PRIORITY.get(severity, 0)
SEVERITY_PRIORITY(severity) ==
  CASE severity = s_security -> 4
    [] severity = s_error    -> 3
    [] severity = s_warning  -> 2
    [] severity = s_style    -> 1
    [] severity = s_info     -> 1
    [] OTHER                 -> 0

\* Faulty variant: a value outside the table is returned as it came
map_severity_keep_case(severity) ==
  LET l == lower(severity) IN
  CASE l = s_high     -> s_error
    [] l = s_medium   -> s_warning
    [] l = s_low      -> s_info
    [] l = s_critical -> s_security
    [] l = s_major    -> s_error
    [] l = s_minor    -> s_warning
    [] l = s_trivial  -> s_style
    [] OTHER          -> severity

\* severity_map.get(severity.lower(), severity.lower())
map_severity(severity) ==
  LET l == lower(severity) IN
  CASE l = s_high     -> s_error
    [] l = s_medium   -> s_warning
    [] l = s_low      -> s_info
    [] l = s_critical -> s_security
    [] l = s_major    -> s_error
    [] l = s_minor    -> s_warning
    [] l = s_trivial  -> s_style
    [] OTHER          -> l

normalize_linter_issue(issue) ==
  [tool       |-> get(issue, "tool", "unknown"),
   severity   |-> map_severity(get(issue, "severity", s_info)),
   file       |-> get(issue, "file", s_empty),
   line       |-> get(issue, "line", 0),
   column     |-> get(issue, "column", 0),
   code       |-> get(issue, "code", ""),
   message    |-> get(issue, "message", s_empty),
   suggestion |-> get(issue, "suggestion", "")]

normalize_linter_issues(raw) ==
  [i \in 1..Len(raw) |-> normalize_linter_issue(raw[i])]

normalize_deepseek_issue(issue) ==
  [tool       |-> "shard-ai",
   severity   |-> map_severity(get(issue, "severity", s_info)),
   file       |-> s_empty,
   line       |-> get(issue, "line", 0),
   column     |-> 0,
   code       |-> "AI_ANALYSIS",
   message    |-> get(issue, "message", s_empty),
   suggestion |-> get(issue, "suggestion", "")]

normalize_deepseek_issues(raw) ==
  [i \in 1..Len(raw) |-> normalize_deepseek_issue(raw[i])]

\* f"{issue['file']}:{issue['line']}"
group_key(issue) == issue.file \o <<":">> \o str_int(issue.line)

\* issue['message'].lower()[:50]
PrefixLen == 50
message_key(issue) == slice_to(lower(issue.message), PrefixLen)

\* The keys of `grouped`, in insertion order (a dict keeps it).
RECURSIVE grouped_keys(_)
grouped_keys(list) ==
  IF list = <<>> THEN <<>>
  ELSE LET ks == grouped_keys(SubSeq(list, 1, Len(list) - 1))
           k  == group_key(list[Len(list)])
       IN IF \E i \in 1..Len(ks) : ks[i] = k THEN ks ELSE Append(ks, k)

\* grouped[key]
grouped(list, key) == SelectSeq(list, LAMBDA x : group_key(x) = key)

\* Faulty variant: the lowest severity priority comes first
group_sort_less_ascending(a, b) ==
  LET pa == SEVERITY_PRIORITY(a.severity)
      pb == SEVERITY_PRIORITY(b.severity)
      ta == IF a.tool = "shard-ai" THEN 1 ELSE 0
      tb == IF b.tool = "shard-ai" THEN 1 ELSE 0
  IN pa < pb \/ (pa = pb /\ ta < tb)

\* The sort key of a group: (-SEVERITY_PRIORITY.get(severity, 0), tool == 'shard-ai'),
\* compared as Python compares tuples, False < True.
group_sort_less(a, b) ==
  LET pa == -SEVERITY_PRIORITY(a.severity)
      pb == -SEVERITY_PRIORITY(b.severity)
      ta == IF a.tool = "shard-ai" THEN 1 ELSE 0
      tb == IF b.tool = "shard-ai" THEN 1 ELSE 0
  IN pa < pb \/ (pa = pb /\ ta < tb)

\* Faulty variant: an unstable sort, which places an element before its equals
RECURSIVE sort_group_unstable(_)
sort_group_unstable(group) ==
  IF group = <<>> THEN <<>>
  ELSE LET r == sort_group_unstable(SubSeq(group, 1, Len(group) - 1))
           e == group[Len(group)]
           p == Cardinality({i \in 1..Len(r) : group_sort_less(r[i], e)})
       IN SubSeq(r, 1, p) \o <<e>> \o SubSeq(r, p + 1, Len(r))

\* sorted(group, key=...).  Python's sort is stable: each element is placed
\* after every element whose key is not greater than its own.
RECURSIVE sort_group(_)
sort_group(group) ==
  IF group = <<>> THEN <<>>
  ELSE LET r == sort_group(SubSeq(group, 1, Len(group) - 1))
           e == group[Len(group)]
           p == Cardinality({i \in 1..Len(r) : ~group_sort_less(e, r[i])})
       IN SubSeq(r, 1, p) \o <<e>> \o SubSeq(r, p + 1, Len(r))

\* The walk over group_sorted with the set unique_messages: an issue is kept
\* when no issue before it in group_sorted has its message key.
unique_by_message(group_sorted) ==
  LET keys == [i \in 1..Len(group_sorted) |-> message_key(group_sorted[i])]
      RECURSIVE walk(_)
      walk(n) ==
        IF n = 0 THEN <<>>
        ELSE IF \E j \in 1..(n - 1) : keys[j] = keys[n]
             THEN walk(n - 1)
             ELSE Append(walk(n - 1), group_sorted[n])
  IN walk(Len(group_sorted))

dedup_group(group) ==
  IF Len(group) = 1 THEN group
  ELSE unique_by_message(sort_group(group))

deduplicate_issues(list) ==
  LET keys == grouped_keys(list)
      RECURSIVE out(_)
      out(n) == IF n = 0 THEN <<>>
                ELSE out(n - 1) \o dedup_group(grouped(list, keys[n]))
  IN out(Len(keys))

\* Faulty variant: the key (-priority, line, file), "by severity, then by line number"
priority_less_line_first(a, b) ==
  LET pa == -SEVERITY_PRIORITY(a.severity)
      pb == -SEVERITY_PRIORITY(b.severity)
  IN \/ pa < pb
     \/ pa = pb /\ a.line < b.line
     \/ pa = pb /\ a.line = b.line /\ str_less(a.file, b.file)

\* The sort key of the ranking: (-SEVERITY_PRIORITY.get(severity, 0), file, line)
priority_less(a, b) ==
  LET pa == -SEVERITY_PRIORITY(a.severity)
      pb == -SEVERITY_PRIORITY(b.severity)
  IN \/ pa < pb
     \/ pa = pb /\ str_less(a.file, b.file)
     \/ pa = pb /\ a.file = b.file /\ a.line < b.line

\* sorted(issues, key=...), stable as above
RECURSIVE sort_by_priority(_)
sort_by_priority(list) ==
  IF list = <<>> THEN <<>>
  ELSE LET r == sort_by_priority(SubSeq(list, 1, Len(list) - 1))
           e == list[Len(list)]
           p == Cardinality({i \in 1..Len(r) : ~priority_less(e, r[i])})
       IN SubSeq(r, 1, p) \o <<e>> \o SubSeq(r, p + 1, Len(r))

merge_all(linter, deepseek) ==
  normalize_linter_issues(linter) \o normalize_deepseek_issues(deepseek)

merge_results(linter, deepseek) ==
  sort_by_priority(deduplicate_issues(merge_all(linter, deepseek)))

-----------------------------------------------------------------------------
(* ResultProcessor.generate_verdict *)

\* defaultdict(int): d[k] += 1
dd_increment(d, k) ==
  IF k \in DOMAIN d THEN [d EXCEPT ![k] = @ + 1] ELSE d @@ (k :> 1)

\* defaultdict(int): reading d[k] inserts k with 0 when it is missing
dd_touch(d, k) == IF k \in DOMAIN d THEN d ELSE d @@ (k :> 0)

\* The state of the counting loop before any issue is seen
verdict_loop_start ==
  [severity_counts         |-> <<>>,
   linter_error_count      |-> 0,
   ai_security_issue_count |-> 0,
   has_syntax_error        |-> FALSE]

\* Faulty variant: has_syntax_error assigned on every iteration, not only set
verdict_loop_step_last_wins(st, issue) ==
  [severity_counts |-> dd_increment(st.severity_counts, issue.severity),
   linter_error_count |->
     IF get(issue, "tool", "<None>") # "shard-ai" /\ issue.severity = s_error
     THEN st.linter_error_count + 1 ELSE st.linter_error_count,
   ai_security_issue_count |->
     IF get(issue, "tool", "<None>") = "shard-ai" /\ issue.severity = s_security
     THEN st.ai_security_issue_count + 1 ELSE st.ai_security_issue_count,
   has_syntax_error |->
     get(issue, "code", "<None>") = "syntax-error" /\ issue.severity = s_error]

\* One iteration of `for issue in issues`; issue['severity'] is present here
verdict_loop_step(st, issue) ==
  [severity_counts |-> dd_increment(st.severity_counts, issue.severity),
   linter_error_count |->
     IF get(issue, "tool", "<None>") # "shard-ai" /\ issue.severity = s_error
     THEN st.linter_error_count + 1 ELSE st.linter_error_count,
   ai_security_issue_count |->
     IF get(issue, "tool", "<None>") = "shard-ai" /\ issue.severity = s_security
     THEN st.ai_security_issue_count + 1 ELSE st.ai_security_issue_count,
   has_syntax_error |->
     \/ st.has_syntax_error
     \/ get(issue, "code", "<None>") = "syntax-error" /\ issue.severity = s_error]

RECURSIVE verdict_loop(_)
verdict_loop(list) ==
  IF list = <<>> THEN verdict_loop_start
  ELSE verdict_loop_step(verdict_loop(SubSeq(list, 1, Len(list) - 1)),
                         list[Len(list)])

SecurityLimit == 10
WarningLimit == 20
LinterErrorLimit == 20

reason_syntax == <<"Syntax error(s) found. Code cannot be deployed.">>

reason_errors(n) ==
  <<"Deployment denied due to ">> \o str_int(n) \o <<" critical error(s).">>

reason_security(n) ==
  <<"Deployment denied due to excessive security vulnerabilities (">>
  \o str_int(n) \o <<" found).">>

reason_warnings(n) ==
  <<"Deployment denied due to an excessive number of warnings (">>
  \o str_int(n) \o <<" found).">>

reason_manual(n) ==
  str_int(n) \o <<" security issue(s) require manual review before deployment.">>

reason_allow(n) ==
  <<"Code approved. ">> \o str_int(n) \o <<" minor issues found.">>

\* Faulty variant: a single error does not deny
rule_errors_two_or_more(has_syntax_error, error_issues) ==
  has_syntax_error \/ error_issues > 1

\* Faulty variant: the limit itself denies
rule_security_inclusive(security_issues) == security_issues >= SecurityLimit

\* Faulty variant: the limit itself denies
rule_warnings_inclusive(warning_issues) == warning_issues >= WarningLimit

\* Faulty variant: the caller's service is not looked at
rule_manual_review_any_service(svc, ai_security_issue_count, linter_error_count) ==
  /\ ai_security_issue_count > 0
  /\ linter_error_count < LinterErrorLimit

\* Faulty variant: one AI-flagged security issue is not enough
rule_manual_review_two_or_more(svc, ai_security_issue_count, linter_error_count) ==
  /\ svc = "ai-review"
  /\ ai_security_issue_count > 1
  /\ linter_error_count < LinterErrorLimit

\* Faulty variant: the guard on the linter's errors is inverted
rule_manual_review_many_errors(svc, ai_security_issue_count, linter_error_count) ==
  /\ svc = "ai-review"
  /\ ai_security_issue_count > 0
  /\ linter_error_count >= LinterErrorLimit

\* The conditions of the decision logic, in the order the code tests them
rule_errors(has_syntax_error, error_issues) ==
  has_syntax_error \/ error_issues >= 1

rule_security(security_issues) == security_issues > SecurityLimit

rule_warnings(warning_issues) == warning_issues > WarningLimit

rule_manual_review(svc, ai_security_issue_count, linter_error_count) ==
  /\ svc = "ai-review"
  /\ ai_security_issue_count > 0
  /\ linter_error_count < LinterErrorLimit

\* The `if ... elif ... else` of the decision logic: <<verdict, reason>>
decide(has_syntax_error, error_issues, security_issues, warning_issues, svc, ai_security_issue_count, linter_error_count, total_issues) ==
  IF rule_errors(has_syntax_error, error_issues)
    THEN <<"deny", reason_errors(error_issues)>>
  ELSE IF rule_security(security_issues)
    THEN <<"deny", reason_security(security_issues)>>
  ELSE IF rule_warnings(warning_issues)
    THEN <<"deny", reason_warnings(warning_issues)>>
  ELSE IF rule_manual_review(svc, ai_security_issue_count, linter_error_count)
    THEN <<"manual_review", reason_manual(ai_security_issue_count)>>
  ELSE <<"allow", reason_allow(total_issues)>>

\* Faulty variant: the list is cut to the issues a caller displays
verdict_dict_for_display(verdict, reason, counts, list) ==
  [status |-> "returned",
   verdict |-> verdict,
   reason |-> reason,
   issue_count |-> Len(list),
   severity_breakdown |-> counts,
   issues |-> slice_to(list, 10)]

\* The dict generate_verdict returns (lines 153-159 and 183-189):
\* dict(severity_counts) has the keys of the defaultdict at that moment
verdict_dict(verdict, reason, counts, list) ==
  [status |-> "returned",
   verdict |-> verdict,
   reason |-> reason,
   issue_count |-> Len(list),
   severity_breakdown |-> counts,
   issues |-> list]

\* The outcome of generate_verdict(issues, service): the dict it returns, or
\* the KeyError of issue['severity'] on an issue that has no 'severity'.
generate_verdict(list, svc) ==
  IF \E i \in 1..Len(list) : "severity" \notin DOMAIN list[i]
  THEN [status |-> "raised", exception |-> "KeyError"]
  ELSE
    LET st == verdict_loop(list)
        total_issues == Len(list)
    IN IF st.has_syntax_error
       THEN verdict_dict("deny", reason_syntax, st.severity_counts, list)
       ELSE
         LET c1 == dd_touch(st.severity_counts, s_security)
             c2 == dd_touch(c1, s_error)
             c3 == dd_touch(c2, s_warning)
             d  == decide(st.has_syntax_error, c3[s_error], c3[s_security],
                          c3[s_warning], svc, st.ai_security_issue_count,
                          st.linter_error_count, total_issues)
         IN verdict_dict(d[1], d[2], c3, list)

-----------------------------------------------------------------------------
(* Python values of model_runner.py *)

\* A value carries its Python type: t is the type's name, v the value.  A
\* str is a sequence of characters, a list a sequence of values, a dict a
\* function from its keys to values.
py_str(v) == [t |-> "str", v |-> v]
py_int(v) == [t |-> "int", v |-> v]
py_list(v) == [t |-> "list", v |-> v]
py_dict(v) == [t |-> "dict", v |-> v]
py_bool(v) == [t |-> "bool", v |-> v]
py_none == [t |-> "NoneType"]

\* {}
empty_dict == [k \in {} |-> py_none]

\* isinstance(x, dict), isinstance(x, list), isinstance(x, str)
is_dict(x) == x.t = "dict"
is_list(x) == x.t = "list"
is_str(x) == x.t = "str"

\* bool(x), as in 'not x' and 'x or y'
truthy(x) ==
  CASE x.t = "NoneType" -> FALSE
    [] x.t = "bool"     -> x.v
    [] x.t = "int"      -> x.v # 0
    [] x.t = "str"      -> Len(x.v) > 0
    [] x.t = "list"     -> Len(x.v) > 0
    [] x.t = "dict"     -> DOMAIN x.v # {}

\* sub in s, for strings
contains(s, sub) ==
  \E i \in 0..(Len(s) - Len(sub)) : SubSeq(s, i + 1, i + Len(sub)) = sub

\* any(phrase in s for phrase in phrases)
contains_any(s, phrases) == \E k \in 1..Len(phrases) : contains(s, phrases[k])

\* str(n) for any int n
int_str(n) == IF n < 0 THEN <<"-">> \o str_int(0 - n) ELSE str_int(n)

\* repr(x) of a str without quotes or backslashes, an int, a bool, None and
\* a list
RECURSIVE py_repr(_)
py_repr(x) ==
  LET RECURSIVE joined(_)
      joined(items) ==
        IF items = <<>> THEN <<>>
        ELSE IF Len(items) = 1 THEN py_repr(items[1])
        ELSE py_repr(items[1]) \o <<",", " ">> \o joined(Tail(items))
  IN CASE x.t = "str"      -> <<"'">> \o x.v \o <<"'">>
       [] x.t = "int"      -> int_str(x.v)
       [] x.t = "NoneType" -> <<"N","o","n","e">>
       [] x.t = "bool"     -> IF x.v THEN <<"T","r","u","e">> ELSE <<"F","a","l","s","e">>
       [] x.t = "list"     -> <<"[">> \o joined(x.v) \o <<"]">>

\* str(x)
to_str(x) == IF x.t = "str" THEN x.v ELSE py_repr(x)

\* The white space of the model's strings
WhitespaceChars == {" ", "\t", "\n", "\r"}

\* s.strip()
RECURSIVE strip(_)
strip(s) ==
  IF s = <<>> THEN s
  ELSE IF Head(s) \in WhitespaceChars THEN strip(Tail(s))
  ELSE IF s[Len(s)] \in WhitespaceChars THEN strip(SubSeq(s, 1, Len(s) - 1))
  ELSE s

is_digits(s) == Len(s) > 0 /\ \A i \in 1..Len(s) : s[i] \in {Digits[d] : d \in 1..10}

DigitValue == [c \in {Digits[d] : d \in 1..10} |-> (CHOOSE d \in 1..10 : Digits[d] = c) - 1]

RECURSIVE digits_int(_)
digits_int(s) ==
  IF s = <<>> THEN 0
  ELSE 10 * digits_int(SubSeq(s, 1, Len(s) - 1)) + DigitValue[s[Len(s)]]

returned(value) == [status |-> "returned", value |-> value]
raised(exception) == [status |-> "raised", exception |-> exception]

no_result == [status |-> "none"]

\* int(x): a str is stripped and read as an optional sign and decimal digits
to_int(x) ==
  CASE x.t = "int" -> returned(x.v)
    [] x.t = "bool" -> returned(IF x.v THEN 1 ELSE 0)
    [] x.t = "str" ->
         LET s == strip(x.v)
             signed == Len(s) > 0 /\ s[1] \in {"-", "+"}
             digits == IF signed THEN Tail(s) ELSE s
         IN IF is_digits(digits)
            THEN returned(IF signed /\ s[1] = "-" THEN 0 - digits_int(digits)
                          ELSE digits_int(digits))
            ELSE raised("ValueError")
    [] OTHER -> raised("TypeError")

-----------------------------------------------------------------------------
(* ModelRunner._classify_severity and ModelRunner._validate_issue *)

\* _classify_severity: 'Blocking errors - will prevent app from running'
blocking_errors ==
  <<
    <<"s","y","n","t","a","x"," ","e","r","r","o","r">>,
    <<"i","m","p","o","r","t"," ","e","r","r","o","r">>,
    <<"m","o","d","u","l","e"," ","n","o","t"," ","f","o","u","n","d">>,
    <<"i","n","d","e","n","t","a","t","i","o","n"," ","e","r","r","o","r">>,
    <<"n","a","m","e"," ","e","r","r","o","r">>,
    <<"t","y","p","e"," ","e","r","r","o","r">>,
    <<"v","a","l","u","e"," ","e","r","r","o","r">>,
    <<"k","e","y"," ","e","r","r","o","r">>,
    <<"a","t","t","r","i","b","u","t","e"," ","e","r","r","o","r">>,
    <<"n","o","t"," ","d","e","f","i","n","e","d">>,
    <<"m","i","s","s","i","n","g"," ","r","e","q","u","i","r","e","d">>,
    <<"i","n","v","a","l","i","d"," ","s","y","n","t","a","x">>,
    <<"c","a","n","n","o","t"," ","i","m","p","o","r","t">>,
    <<"n","o"," ","m","o","d","u","l","e"," ","n","a","m","e","d">>,
    <<"f","u","n","c","t","i","o","n"," ","n","o","t"," ","f","o","u","n","d">>,
    <<"c","l","a","s","s"," ","n","o","t"," ","f","o","u","n","d">>,
    <<"m","i","s","s","i","n","g"," ","p","a","r","e","n","t","h","e","s","i","s">>,
    <<"u","n","e","x","p","e","c","t","e","d"," ","i","n","d","e","n","t">>,
    <<"e","x","p","e","c","t","e","d"," ","a","n"," ","i","n","d","e","n","t","e","d"," ","b","l","o","c","k">>,
    <<"b","l","u","e","p","r","i","n","t"," ","n","o","t"," ","r","e","g","i","s","t","e","r","e","d">>,
    <<"a","p","p"," ","f","a","c","t","o","r","y"," ","n","o","t"," ","f","o","u","n","d">>,
    <<"c","r","e","a","t","e","_","a","p","p"," ","n","o","t"," ","f","o","u","n","d">>
  >>

\* _classify_severity: 'Security issues'
security_issues ==
  <<
    <<"v","u","l","n","e","r","a","b","i","l","i","t","y">>,
    <<"i","n","j","e","c","t","i","o","n">>,
    <<"x","s","s">>,
    <<"c","s","r","f">>,
    <<"c","l","i","c","k","j","a","c","k","i","n","g">>,
    <<"d","i","r","e","c","t","o","r","y"," ","t","r","a","v","e","r","s","a","l">>,
    <<"p","a","t","h"," ","t","r","a","v","e","r","s","a","l">>,
    <<"c","o","m","m","a","n","d"," ","i","n","j","e","c","t","i","o","n">>,
    <<"c","o","d","e"," ","i","n","j","e","c","t","i","o","n">>,
    <<"s","q","l"," ","i","n","j","e","c","t","i","o","n">>,
    <<"e","v","a","l">>,
    <<"e","x","e","c">>,
    <<"p","i","c","k","l","e">>,
    <<"y","a","m","l",".","l","o","a","d">>,
    <<"s","u","b","p","r","o","c","e","s","s">>,
    <<"s","h","e","l","l","=","t","r","u","e">>,
    <<"o","s",".","s","y","s","t","e","m">>,
    <<"o","s",".","p","o","p","e","n">>,
    <<"h","a","r","d","c","o","d","e","d"," ","s","e","c","r","e","t">>,
    <<"h","a","r","d","c","o","d","e","d"," ","p","a","s","s","w","o","r","d">>,
    <<"h","a","r","d","c","o","d","e","d"," ","t","o","k","e","n">>,
    <<"h","a","r","d","c","o","d","e","d"," ","k","e","y">>,
    <<"h","a","r","d","c","o","d","e","d"," ","c","r","e","d","e","n","t","i","a","l">>,
    <<"e","x","p","o","s","e","d"," ","p","o","r","t">>,
    <<"e","x","p","o","s","e","d"," ","h","o","s","t">>,
    <<"0",".","0",".","0",".","0">>,
    <<"d","o","t","e","n","v">>,
    <<"e","n","v","i","r","o","n","m","e","n","t"," ","v","a","r","i","a","b","l","e">>,
    <<"o","s",".","g","e","t","e","n","v">>,
    <<"o","s",".","e","n","v","i","r","o","n">>
  >>

\* Faulty variant: the security table is consulted before the blocking table
classify_severity_security_first(message) ==
  LET message_lower == lower(message) IN
  IF contains_any(message_lower, security_issues) THEN s_security
  ELSE IF contains_any(message_lower, blocking_errors) THEN s_error
  ELSE s_warning

classify_severity(message) ==
  LET message_lower == lower(message) IN
  IF contains_any(message_lower, blocking_errors) THEN s_error
  ELSE IF contains_any(message_lower, security_issues) THEN s_security
  ELSE s_warning

\* _validate_issue: 'Skip style and formatting issues'
skip_phrases ==
  <<
    <<"u","n","u","s","e","d"," ","i","m","p","o","r","t">>,
    <<"u","n","u","s","e","d"," ","v","a","r","i","a","b","l","e">>,
    <<"l","i","n","e"," ","t","o","o"," ","l","o","n","g">>,
    <<"m","i","s","s","i","n","g"," ","d","o","c","s","t","r","i","n","g">>,
    <<"t","r","a","i","l","i","n","g"," ","w","h","i","t","e","s","p","a","c","e">>,
    <<"m","i","s","s","i","n","g"," ","w","h","i","t","e","s","p","a","c","e">>,
    <<"u","n","n","e","c","e","s","s","a","r","y">>,
    <<"r","e","d","e","f","i","n","i","t","i","o","n">>,
    <<"r","e","d","e","f","i","n","e","d">>,
    <<"r","e","d","u","n","d","a","n","t">>,
    <<"n","o","t"," ","i","n"," ","s","n","a","k","e","_","c","a","s","e">>,
    <<"n","o","t"," ","i","n"," ","l","o","w","e","r","c","a","s","e">>,
    <<"b","l","a","n","k"," ","l","i","n","e">>,
    <<"w","h","i","t","e","s","p","a","c","e">>,
    <<"m","i","s","s","i","n","g"," ","f","i","n","a","l"," ","n","e","w","l","i","n","e">>,
    <<"t","o","o"," ","m","a","n","y">>,
    <<"t","o","o"," ","f","e","w">>,
    <<"l","i","n","e"," ","b","r","e","a","k">>,
    <<"t","r","a","i","l","i","n","g"," ","n","e","w","l","i","n","e","s">>,
    <<"t","r","a","i","l","i","n","g"," ","s","p","a","c","e","s">>,
    <<"t","r","a","i","l","i","n","g"," ","c","o","m","m","a">>,
    <<"m","i","s","s","i","n","g"," ","b","l","a","n","k"," ","l","i","n","e">>,
    <<"m","u","l","t","i","p","l","e"," ","i","m","p","o","r","t","s">>,
    <<"m","u","l","t","i","p","l","e"," ","s","t","a","t","e","m","e","n","t","s">>,
    <<"m","u","l","t","i","p","l","e"," ","s","p","a","c","e","s">>,
    <<"u","n","e","x","p","e","c","t","e","d"," ","s","p","a","c","e","s">>,
    <<"u","n","e","x","p","e","c","t","e","d"," ","i","n","d","e","n","t","a","t","i","o","n">>,
    <<"b","a","d"," ","q","u","o","t","e","s">>,
    <<"b","a","d"," ","i","n","d","e","n","t","a","t","i","o","n">>,
    <<"b","a","d"," ","c","o","n","t","i","n","u","a","t","i","o","n">>,
    <<"b","a","d"," ","q","u","o","t","e","s">>,
    <<"b","a","d"," ","w","h","i","t","e","s","p","a","c","e">>,
    <<"b","a","d"," ","b","a","c","k","s","l","a","s","h">>,
    <<"b","a","d"," ","e","s","c","a","p","e"," ","s","e","q","u","e","n","c","e">>,
    <<"b","a","d"," ","o","p","e","r","a","t","o","r">>,
    <<"b","a","d"," ","e","x","c","e","p","t"," ","o","r","d","e","r">>,
    <<"b","a","d"," ","c","l","a","s","s"," ","a","t","t","r","i","b","u","t","e">>,
    <<"b","a","d"," ","s","t","a","t","i","c","m","e","t","h","o","d">>,
    <<"b","a","d"," ","s","u","p","e","r"," ","c","a","l","l">>,
    <<"b","a","d"," ","e","x","c","e","p","t","i","o","n"," ","c","o","n","t","e","x","t">>,
    <<"b","a","d"," ","s","t","r","i","n","g"," ","f","o","r","m","a","t"," ","t","y","p","e">>,
    <<"b","a","d"," ","s","t","r","i","n","g"," ","f","o","r","m","a","t">>,
    <<"b","a","d"," ","s","t","r","i","n","g"," ","f","o","r","m","a","t"," ","c","h","a","r","a","c","t","e","r">>,
    <<"b","a","d"," ","s","t","r","i","n","g"," ","f","o","r","m","a","t"," ","f","i","e","l","d">>,
    <<"b","a","d"," ","s","t","r","i","n","g"," ","f","o","r","m","a","t"," ","k","e","y">>,
    <<"b","a","d"," ","s","t","r","i","n","g"," ","f","o","r","m","a","t"," ","v","a","l","u","e">>,
    <<"b","a","d"," ","s","t","r","i","n","g"," ","f","o","r","m","a","t"," ","c","o","n","v","e","r","t","e","r">>,
    <<"b","a","d"," ","s","t","r","i","n","g"," ","f","o","r","m","a","t"," ","s","p","e","c","i","f","i","e","r">>,
    <<"b","a","d"," ","s","t","r","i","n","g"," ","f","o","r","m","a","t"," ","f","i","e","l","d"," ","n","a","m","e">>,
    <<"b","a","d"," ","s","t","r","i","n","g"," ","f","o","r","m","a","t"," ","f","i","e","l","d"," ","a","t","t","r","i","b","u","t","e">>,
    <<"b","a","d"," ","s","t","r","i","n","g"," ","f","o","r","m","a","t"," ","f","i","e","l","d"," ","e","l","e","m","e","n","t">>,
    <<"b","a","d"," ","s","t","r","i","n","g"," ","f","o","r","m","a","t"," ","f","i","e","l","d"," ","k","e","y">>,
    <<"b","a","d"," ","s","t","r","i","n","g"," ","f","o","r","m","a","t"," ","f","i","e","l","d"," ","v","a","l","u","e">>,
    <<"b","a","d"," ","s","t","r","i","n","g"," ","f","o","r","m","a","t"," ","f","i","e","l","d"," ","w","i","d","t","h">>,
    <<"b","a","d"," ","s","t","r","i","n","g"," ","f","o","r","m","a","t"," ","f","i","e","l","d"," ","p","r","e","c","i","s","i","o","n">>,
    <<"b","a","d"," ","s","t","r","i","n","g"," ","f","o","r","m","a","t"," ","f","i","e","l","d"," ","t","y","p","e">>,
    <<"b","a","d"," ","s","t","r","i","n","g"," ","f","o","r","m","a","t"," ","f","i","e","l","d"," ","c","o","n","v","e","r","s","i","o","n">>,
    <<"b","a","d"," ","s","t","r","i","n","g"," ","f","o","r","m","a","t"," ","f","i","e","l","d"," ","f","o","r","m","a","t","_","s","p","e","c">>,
    <<"b","a","d"," ","s","t","r","i","n","g"," ","f","o","r","m","a","t"," ","f","i","e","l","d"," ","r","e","p","l","a","c","e","m","e","n","t">>,
    <<"b","a","d"," ","s","t","r","i","n","g"," ","f","o","r","m","a","t"," ","f","i","e","l","d"," ","m","a","p","p","i","n","g">>,
    <<"b","a","d"," ","s","t","r","i","n","g"," ","f","o","r","m","a","t"," ","f","i","e","l","d"," ","m","a","p","p","i","n","g"," ","k","e","y">>,
    <<"b","a","d"," ","s","t","r","i","n","g"," ","f","o","r","m","a","t"," ","f","i","e","l","d"," ","m","a","p","p","i","n","g"," ","v","a","l","u","e">>,
    <<"b","a","d"," ","s","t","r","i","n","g"," ","f","o","r","m","a","t"," ","f","i","e","l","d"," ","m","a","p","p","i","n","g"," ","p","a","i","r">>,
    <<"b","a","d"," ","s","t","r","i","n","g"," ","f","o","r","m","a","t"," ","f","i","e","l","d"," ","m","a","p","p","i","n","g"," ","k","e","y"," ","v","a","l","u","e">>,
    <<"b","a","d"," ","s","t","r","i","n","g"," ","f","o","r","m","a","t"," ","f","i","e","l","d"," ","m","a","p","p","i","n","g"," ","k","e","y"," ","v","a","l","u","e"," ","p","a","i","r">>,
    <<"b","a","d"," ","s","t","r","i","n","g"," ","f","o","r","m","a","t"," ","f","i","e","l","d"," ","m","a","p","p","i","n","g"," ","k","e","y"," ","v","a","l","u","e"," ","p","a","i","r","s">>,
    <<"b","a","d"," ","s","t","r","i","n","g"," ","f","o","r","m","a","t"," ","f","i","e","l","d"," ","m","a","p","p","i","n","g"," ","k","e","y"," ","v","a","l","u","e"," ","p","a","i","r","s"," ","l","i","s","t">>,
    <<"b","a","d"," ","s","t","r","i","n","g"," ","f","o","r","m","a","t"," ","f","i","e","l","d"," ","m","a","p","p","i","n","g"," ","k","e","y"," ","v","a","l","u","e"," ","p","a","i","r","s"," ","l","i","s","t"," ","i","t","e","m">>,
    <<"b","a","d"," ","s","t","r","i","n","g"," ","f","o","r","m","a","t"," ","f","i","e","l","d"," ","m","a","p","p","i","n","g"," ","k","e","y"," ","v","a","l","u","e"," ","p","a","i","r","s"," ","l","i","s","t"," ","i","t","e","m","s">>,
    <<"b","a","d"," ","s","t","r","i","n","g"," ","f","o","r","m","a","t"," ","f","i","e","l","d"," ","m","a","p","p","i","n","g"," ","k","e","y"," ","v","a","l","u","e"," ","p","a","i","r","s"," ","l","i","s","t"," ","i","t","e","m","s"," ","l","i","s","t">>,
    <<"b","a","d"," ","s","t","r","i","n","g"," ","f","o","r","m","a","t"," ","f","i","e","l","d"," ","m","a","p","p","i","n","g"," ","k","e","y"," ","v","a","l","u","e"," ","p","a","i","r","s"," ","l","i","s","t"," ","i","t","e","m","s"," ","l","i","s","t"," ","i","t","e","m">>,
    <<"b","a","d"," ","s","t","r","i","n","g"," ","f","o","r","m","a","t"," ","f","i","e","l","d"," ","m","a","p","p","i","n","g"," ","k","e","y"," ","v","a","l","u","e"," ","p","a","i","r","s"," ","l","i","s","t"," ","i","t","e","m","s"," ","l","i","s","t"," ","i","t","e","m","s">>,
    <<"b","a","d"," ","s","t","r","i","n","g"," ","f","o","r","m","a","t"," ","f","i","e","l","d"," ","m","a","p","p","i","n","g"," ","k","e","y"," ","v","a","l","u","e"," ","p","a","i","r","s"," ","l","i","s","t"," ","i","t","e","m","s"," ","l","i","s","t"," ","i","t","e","m","s"," ","l","i","s","t">>,
    <<"b","a","d"," ","s","t","r","i","n","g"," ","f","o","r","m","a","t"," ","f","i","e","l","d"," ","m","a","p","p","i","n","g"," ","k","e","y"," ","v","a","l","u","e"," ","p","a","i","r","s"," ","l","i","s","t"," ","i","t","e","m","s"," ","l","i","s","t"," ","i","t","e","m","s"," ","l","i","s","t"," ","i","t","e","m">>,
    <<"b","a","d"," ","s","t","r","i","n","g"," ","f","o","r","m","a","t"," ","f","i","e","l","d"," ","m","a","p","p","i","n","g"," ","k","e","y"," ","v","a","l","u","e"," ","p","a","i","r","s"," ","l","i","s","t"," ","i","t","e","m","s"," ","l","i","s","t"," ","i","t","e","m","s"," ","l","i","s","t"," ","i","t","e","m","s">>
  >>

s_ai_analysis == <<"A","I","_","A","N","A","L","Y","S","I","S">>
s_shard_ai == <<"s","h","a","r","d","-","a","i">>

\* Keys of the issue dicts
k_severity == <<"s","e","v","e","r","i","t","y">>
k_line == <<"l","i","n","e">>
k_message == <<"m","e","s","s","a","g","e">>
k_suggestion == <<"s","u","g","g","e","s","t","i","o","n">>
k_code == <<"c","o","d","e">>
k_file == <<"f","i","l","e">>
k_column == <<"c","o","l","u","m","n">>
k_tool == <<"t","o","o","l">>
k_issues == <<"i","s","s","u","e","s">>

\* The dict _validate_issue builds (lines 472-481)
validated_issue(issue, file_path, message, line, column) ==
  py_dict((k_severity :> py_str(classify_severity(message)))
          @@ (k_line :> py_int(line))
          @@ (k_message :> py_str(message))
          @@ (k_suggestion :> py_str(to_str(get(issue.v, k_suggestion, py_str(s_empty)))))
          @@ (k_code :> py_str(to_str(get(issue.v, k_code, py_str(s_ai_analysis)))))
          @@ (k_file :> IF truthy(file_path) THEN file_path
                        ELSE py_str(to_str(get(issue.v, k_file, py_str(s_empty)))))
          @@ (k_column :> py_int(column))
          @@ (k_tool :> py_str(s_shard_ai)))

\* _validate_issue(issue, file_path): the value it returns or the exception
\* int() raises
validate_issue(issue, file_path) ==
  IF ~is_dict(issue) THEN returned(py_none)
  ELSE LET message == to_str(get(issue.v, k_message, py_str(s_empty)))
           line == to_int(get(issue.v, k_line, py_int(1)))
           column == to_int(get(issue.v, k_column, py_int(0)))
       IN IF contains_any(lower(message), skip_phrases) THEN returned(py_none)
          ELSE IF line.status = "raised" THEN line
          ELSE IF column.status = "raised" THEN column
          ELSE returned(validated_issue(issue, file_path, message, line.value, column.value))


-----------------------------------------------------------------------------
(* json.loads and re.search, as _clean_and_parse_json uses them *)

\* The depth of nested arrays and objects beyond which json.loads raises
\* RecursionError: the interpreter's recursion limit, scaled down
RecursionLimit == 3

char_at(s, i) == IF i >= 1 /\ i <= Len(s) THEN s[i] ELSE ""

starts_with(s, i, literal) ==
  i + Len(literal) - 1 <= Len(s) /\ SubSeq(s, i, i + Len(literal) - 1) = literal

RECURSIVE skip_ws(_, _)
skip_ws(s, i) == IF char_at(s, i) \in WhitespaceChars THEN skip_ws(s, i + 1) ELSE i

decode_error == raised("JSONDecodeError")

\* A value read from the text, and the index after it
parsed(value, next) == [status |-> "returned", value |-> value, next |-> next]

DigitChars == {Digits[d] : d \in 1..10}

\* A JSON string from the index after its opening quote: the escapes
\* \" \\ \/ \n \t \r are read, a raw control character is an error
RECURSIVE scan_string(_, _, _)
scan_string(s, j, acc) ==
  LET c == char_at(s, j)
      e == char_at(s, j + 1)
  IN IF c = "" THEN decode_error
     ELSE IF c = "\"" THEN parsed(py_str(acc), j + 1)
     ELSE IF c = "\\" THEN
            CASE e \in {"\"", "\\", "/"} -> scan_string(s, j + 2, Append(acc, e))
              [] e = "n" -> scan_string(s, j + 2, Append(acc, "\n"))
              [] e = "t" -> scan_string(s, j + 2, Append(acc, "\t"))
              [] e = "r" -> scan_string(s, j + 2, Append(acc, "\r"))
              [] OTHER -> decode_error
     ELSE IF c \in {"\t", "\n", "\r"} THEN decode_error
     ELSE scan_string(s, j + 1, Append(acc, c))

\* A JSON integer: -?(0|[1-9][0-9]*)
scan_number(s, i) ==
  LET negative == char_at(s, i) = "-"
      first == IF negative THEN i + 1 ELSE i
      stop == CHOOSE j \in first..(Len(s) + 1) :
                 /\ char_at(s, j) \notin DigitChars
                 /\ \A k \in first..(j - 1) : s[k] \in DigitChars
      last == IF char_at(s, first) = "0" THEN first + 1 ELSE stop
      value == digits_int(SubSeq(s, first, last - 1))
  IN IF char_at(s, first) \notin DigitChars THEN decode_error
     ELSE parsed(py_int(IF negative THEN 0 - value ELSE value), last)

RECURSIVE scan_value(_, _, _)
RECURSIVE scan_array_items(_, _, _, _)
RECURSIVE scan_object_members(_, _, _, _)

\* The value at index i, inside depth open arrays and objects
scan_value(s, i, depth) ==
  LET c == char_at(s, i) IN
  CASE c = "\"" -> scan_string(s, i + 1, <<>>)
    [] c = "[" ->
         IF depth >= RecursionLimit THEN raised("RecursionError")
         ELSE IF char_at(s, skip_ws(s, i + 1)) = "]"
              THEN parsed(py_list(<<>>), skip_ws(s, i + 1) + 1)
              ELSE scan_array_items(s, skip_ws(s, i + 1), depth + 1, <<>>)
    [] c = "{" ->
         IF depth >= RecursionLimit THEN raised("RecursionError")
         ELSE IF char_at(s, skip_ws(s, i + 1)) = "}"
              THEN parsed(py_dict(empty_dict), skip_ws(s, i + 1) + 1)
              ELSE scan_object_members(s, skip_ws(s, i + 1), depth + 1, empty_dict)
    [] starts_with(s, i, <<"n","u","l","l">>) -> parsed(py_none, i + 4)
    [] starts_with(s, i, <<"t","r","u","e">>) -> parsed(py_bool(TRUE), i + 4)
    [] starts_with(s, i, <<"f","a","l","s","e">>) -> parsed(py_bool(FALSE), i + 5)
    [] c \in DigitChars \cup {"-"} -> scan_number(s, i)
    [] OTHER -> decode_error

\* value (, value)* ]
scan_array_items(s, i, depth, acc) ==
  LET item == scan_value(s, i, depth) IN
  IF item.status = "raised" THEN item
  ELSE LET j == skip_ws(s, item.next)
           c == char_at(s, j)
       IN IF c = "]" THEN parsed(py_list(Append(acc, item.value)), j + 1)
          ELSE IF c = "," THEN scan_array_items(s, skip_ws(s, j + 1), depth, Append(acc, item.value))
          ELSE decode_error

\* "key" : value (, "key" : value)* }   A repeated key keeps its last value.
scan_object_members(s, i, depth, acc) ==
  IF char_at(s, i) # "\"" THEN decode_error
  ELSE LET key == scan_string(s, i + 1, <<>>) IN
       IF key.status = "raised" THEN key
       ELSE LET colon == skip_ws(s, key.next) IN
            IF char_at(s, colon) # ":" THEN decode_error
            ELSE LET member == scan_value(s, skip_ws(s, colon + 1), depth) IN
                 IF member.status = "raised" THEN member
                 ELSE LET d == (key.value.v :> member.value) @@ acc
                          j == skip_ws(s, member.next)
                          c == char_at(s, j)
                      IN IF c = "}" THEN parsed(py_dict(d), j + 1)
                         ELSE IF c = "," THEN scan_object_members(s, skip_ws(s, j + 1), depth, d)
                         ELSE decode_error

\* json.loads(s): one value with white space around it and nothing else
json_loads(s) ==
  LET top == scan_value(s, skip_ws(s, 1), 0) IN
  IF top.status = "raised" THEN top
  ELSE IF skip_ws(s, top.next) # Len(s) + 1 THEN decode_error
  ELSE returned(top.value)

no_match == [found |-> FALSE]
match_of(s, first, last) == [found |-> TRUE, group |-> SubSeq(s, first, last)]

\* The leftmost start of a set of candidate starts, 0 if there is none
leftmost(starts) == IF starts = {} THEN 0 ELSE CHOOSE i \in starts : \A j \in starts : i <= j

\* The rightmost end of a set of candidate ends, 0 if there is none
rightmost(ends) == IF ends = {} THEN 0 ELSE CHOOSE i \in ends : \A j \in ends : i >= j

\* Where a greedy '.*' followed by close, white space and the last character
\* can end: the index of the last character of the match
closing_after(s, from, close, final) ==
  rightmost({skip_ws(s, e + 1) : e \in {e \in (from + 1)..Len(s) :
                s[e] = close /\ char_at(s, skip_ws(s, e + 1)) = final}})

\* re.search(r'\[\s*\{.*\}\s*\]', s, re.DOTALL)
search_array_of_objects(s) ==
  LET opens(i) == s[i] = "[" /\ char_at(s, skip_ws(s, i + 1)) = "{"
      first == leftmost({i \in 1..Len(s) :
                 opens(i) /\ closing_after(s, skip_ws(s, i + 1), "}", "]") # 0})
  IN IF first = 0 THEN no_match
     ELSE match_of(s, first, closing_after(s, skip_ws(s, first + 1), "}", "]"))

\* The index of the '[' of '{ "issues" : [' opening at i, 0 if it does not
issues_wrapper_open(s, i) ==
  LET name == skip_ws(s, i + 1)
      colon == skip_ws(s, name + 8)
      bracket == skip_ws(s, colon + 1)
  IN IF /\ char_at(s, i) = "{"
        /\ starts_with(s, name, <<"\"","i","s","s","u","e","s","\"">>)
        /\ char_at(s, colon) = ":"
        /\ char_at(s, bracket) = "["
     THEN bracket ELSE 0

\* re.search(r'\{\s*"issues"\s*:\s*\[.*\]\s*\}', s, re.DOTALL)
search_issues_wrapper(s) ==
  LET first == leftmost({i \in 1..Len(s) :
                 /\ issues_wrapper_open(s, i) # 0
                 /\ closing_after(s, issues_wrapper_open(s, i), "]", "}") # 0})
  IN IF first = 0 THEN no_match
     ELSE match_of(s, first, closing_after(s, issues_wrapper_open(s, first), "]", "}"))

\* re.search of open, '.*' and close: from the first open to the last close
search_span(s, open, close) ==
  LET first == leftmost({i \in 1..Len(s) : s[i] = open})
      last == rightmost({i \in 1..Len(s) : s[i] = close})
  IN IF first = 0 \/ last <= first THEN no_match ELSE match_of(s, first, last)

\* re.search(r'\{.*\}', s, re.DOTALL)
search_object(s) == search_span(s, "{", "}")

\* re.search(r'\[.*\]', s, re.DOTALL)
search_array(s) == search_span(s, "[", "]")

\* json_patterns, in the order of the list
NumPatterns == 4

re_search(k, s) ==
  CASE k = 1 -> search_array_of_objects(s)
    [] k = 2 -> search_issues_wrapper(s)
    [] k = 3 -> search_object(s)
    [] k = 4 -> search_array(s)


-----------------------------------------------------------------------------
(* ModelRunner._extract_issues_from_data and ModelRunner._clean_and_parse_json *)

\* [issue for issue in (self._validate_issue(item) for item in items) if issue]:
\* the list, or the first exception a _validate_issue raises
RECURSIVE validate_items(_, _)
validate_items(items, acc) ==
  IF items = <<>> THEN returned(py_list(acc))
  ELSE LET issue == validate_issue(Head(items), py_none) IN
       IF issue.status = "raised" THEN issue
       ELSE validate_items(Tail(items),
                           IF truthy(issue.value) THEN Append(acc, issue.value) ELSE acc)

\* The body of the try block of _extract_issues_from_data
extract_issues_try(data) ==
  IF is_list(data) THEN validate_items(data.v, <<>>)
  ELSE IF is_dict(data) THEN
         IF k_issues \in DOMAIN data.v /\ is_list(data.v[k_issues])
         THEN validate_items(data.v[k_issues].v, <<>>)
         ELSE LET issue == validate_issue(data, py_none) IN
              IF issue.status = "raised" THEN issue
              ELSE returned(py_list(IF truthy(issue.value) THEN <<issue.value>> ELSE <<>>))
  ELSE returned(py_list(<<>>))

\* _extract_issues_from_data(data): 'except Exception' logs, then 'return []'
extract_issues_from_data(data) ==
  IF ~truthy(data) THEN returned(py_list(<<>>))
  ELSE LET tried == extract_issues_try(data) IN
       IF tried.status = "raised" THEN returned(py_list(<<>>)) ELSE tried

s_failed_to_parse == <<"F","a","i","l","e","d"," ","t","o"," ","p","a","r","s","e"," ","A","I"," ","r","e","s","p","o","n","s","e">>
s_check_the_logs == <<"C","h","e","c","k"," ","t","h","e"," ","l","o","g","s"," ","f","o","r"," ","t","h","e"," ","r","a","w"," ","A","I"," ","r","e","s","p","o","n","s","e"," ","a","n","d"," ","u","p","d","a","t","e"," ","t","h","e"," ","p","r","o","m","p","t"," ","i","f"," ","n","e","e","d","e","d",".">>

\* The issue _clean_and_parse_json returns when nothing was recovered
failed_to_parse_issue ==
  py_dict((k_line :> py_int(1))
          @@ (k_severity :> py_str(s_error))
          @@ (k_message :> py_str(s_failed_to_parse))
          @@ (k_suggestion :> py_str(s_check_the_logs)))

\* The loop over json_patterns from pattern k on, and the return after it
RECURSIVE try_patterns(_, _)
try_patterns(s, k) ==
  IF k > NumPatterns THEN returned(py_list(<<failed_to_parse_issue>>))
  ELSE LET match == re_search(k, s) IN
       IF ~match.found THEN try_patterns(s, k + 1)
       ELSE LET data == json_loads(strip(match.group)) IN
            IF data.status = "raised"
            THEN IF data.exception = "JSONDecodeError" THEN try_patterns(s, k + 1)
                 ELSE returned(py_list(<<failed_to_parse_issue>>))
            ELSE LET found == extract_issues_from_data(data.value) IN
                 IF found.status = "raised" THEN returned(py_list(<<failed_to_parse_issue>>))
                 ELSE IF truthy(found.value) THEN found
                 ELSE try_patterns(s, k + 1)

\* _clean_and_parse_json(text): only json.JSONDecodeError is caught around
\* the parse of the whole text
clean_and_parse_json(text) ==
  IF ~truthy(text) \/ ~is_str(text) THEN returned(py_list(<<>>))
  ELSE LET data == json_loads(text.v) IN
       IF data.status = "returned" THEN extract_issues_from_data(data.value)
       ELSE IF data.exception # "JSONDecodeError" THEN data
       ELSE try_patterns(text.v, 1)


-----------------------------------------------------------------------------
(* ModelRunner._run_ai_analysis *)

s_analysis_failed == <<"A","I"," ","a","n","a","l","y","s","i","s"," ","f","a","i","l","e","d","."," ","C","h","e","c","k"," ","t","h","e"," ","l","o","g","s"," ","f","o","r"," ","d","e","t","a","i","l","s",".">>
s_model_error == <<"T","h","e"," ","A","I"," ","m","o","d","e","l"," ","e","n","c","o","u","n","t","e","r","e","d"," ","a","n"," ","e","r","r","o","r","."," ","P","l","e","a","s","e"," ","c","h","e","c","k"," ","t","h","e"," ","l","o","g","s"," ","f","o","r"," ","m","o","r","e"," ","i","n","f","o","r","m","a","t","i","o","n",".">>

\* The issue the 'except Exception' of _run_ai_analysis returns
analysis_failed_issue ==
  py_dict((k_line :> py_int(1))
          @@ (k_message :> py_str(s_analysis_failed))
          @@ (k_severity :> py_str(s_error))
          @@ (k_tool :> py_str(s_shard_ai))
          @@ (k_suggestion :> py_str(s_model_error)))

\* Faulty variant: every validated issue is kept
is_critical_or_any(validated) == is_dict(validated)

\* validated.get('severity') in ['security', 'error']
is_critical(validated) ==
  get(validated.v, k_severity, py_none) \in {py_str(s_security), py_str(s_error)}

\* validated['tool'] = 'shard-ai'
with_tool(validated) ==
  py_dict((k_tool :> py_str(s_shard_ai)) @@ validated.v)

\* The loop over issues (lines 139-146): the list validated_issues, or the
\* exception a _validate_issue raises
RECURSIVE validated_issues(_, _, _)
validated_issues(found, file_path, acc) ==
  IF found = <<>> THEN returned(py_list(acc))
  ELSE LET validated == validate_issue(Head(found), file_path) IN
       IF validated.status = "raised" THEN validated
       ELSE validated_issues(Tail(found), file_path,
              IF truthy(validated.value) /\ is_critical(validated.value)
              THEN Append(acc, with_tool(validated.value)) ELSE acc)

\* _run_ai_analysis after _clean_and_parse_json (lines 138-158): the issues
\* kept; an exception inside the try block gives the 'AI analysis failed' issue
run_ai_result(found, file_path) ==
  LET kept == IF found.status = "raised" THEN found
              ELSE validated_issues(found.value.v, file_path, <<>>)
  IN IF kept.status = "raised"
     THEN returned(py_list(<<analysis_failed_issue>>))
     ELSE kept



-----------------------------------------------------------------------------
(* CodeReviewView.post and the model_manager it shares between requests *)

\* The values of the enumeration ModelType
ModelTypes ==
  {"deepseek_lite", "deepseek_full", "codellama_lite", "codellama_full",
   "mistral_7b", "falcon_7b"}

\* files[:5]
AiFileLimit == 5

\* verdict_result['issues'][:50]
ResponseIssueLimit == 50

\* A JsonResponse
json_response(status, body) == [status |-> status, body |-> body]

\* The names bound in post when the dict of lines 234-248 is evaluated: the
\* locals assigned on the way there, and the module's names the dict reads
bound_names ==
  {"self", "request", "data", "project_id", "repo_path", "model_type",
   "base_dir", "repos_dir", "matching_dirs", "target_path", "file_data",
   "files", "linter_service", "result_processor", "linter_issues",
   "model_enum", "ai_runner", "deepseek_issues", "important_files",
   "processor", "merged_issues", "verdict_result",
   "JsonResponse", "model_manager", "len"}

\* The names the dict of lines 234-248 reads, in the order of evaluation
response_reads ==
  <<"verdict_result", "verdict_result", "verdict_result", "verdict_result",
    "verdict_result", "verdict_data", "verdict_data", "verdict_data",
    "verdict_data", "len", "linter_issues", "len", "deepseek_issues",
    "model_type", "model_enum", "model_manager">>

\* The response of lines 234-248, or the NameError of a name that is not bound
review_response(verdict, linter, deepseek, model_type, models) ==
  IF \E i \in 1..Len(response_reads) : response_reads[i] \notin bound_names
  THEN raised("NameError")
  ELSE returned(json_response(200,
         [verdict |-> verdict.verdict,
          reason |-> verdict.reason,
          issue_count |-> verdict.issue_count,
          severity_breakdown |-> verdict.severity_breakdown,
          issues |-> slice_to(verdict.issues, ResponseIssueLimit),
          linter_count |-> Len(linter),
          ai_count |-> Len(deepseek),
          model_used |-> model_type,
          model_loaded |-> model_type \in DOMAIN models]))

\* The responses of the other exits
missing_project_response == json_response(400, [error |-> "Project ID is required"])
invalid_json_response == json_response(400, [error |-> "Invalid JSON in request body"])
repository_not_found_response == json_response(404, [error |-> "Repository not found"])
invalid_model_response == json_response(400, [error |-> "Invalid model type"])
review_failed_response == json_response(500, [error |-> "Code review failed"])
no_files_response ==
  json_response(200, [verdict |-> "allow", reason |-> "No code files found to analyze",
                      issue_count |-> 0, issues |-> <<>>])

\* The model instance request r loads
model_instance(r) == [loaded_by |-> r]

\* self.model = None
no_model == [loaded_by |-> "None"]

\* ModelRunner(model_type=model_enum): no model yet
new_runner(model_type) == [model_type |-> model_type, model |-> no_model]

\* No ModelRunner was made, no response was returned
no_runner == [model_type |-> "None", model |-> no_model]
no_response == json_response(0, [error |-> "None"])

\* issue['file'] = rel_path, for every issue analyze returned
RECURSIVE with_file(_, _)
with_file(found, rel_path) ==
  IF found = <<>> THEN <<>>
  ELSE <<[f \in DOMAIN Head(found) \cup {"file"} |->
            IF f = "file" THEN rel_path ELSE Head(found)[f]]>>
       \o with_file(Tail(found), rel_path)

-----------------------------------------------------------------------------
(* ContextAnalyzer: the dependency graph and the context string *)

\* The indices of character c in s
positions(s, c) == {i \in 1..Len(s) : s[i] = c}

highest(S) == CHOOSE i \in S : \A j \in S : j <= i

lowest(S) == CHOOSE i \in S : \A j \in S : i <= j

\* Path(file_path).name: what follows the last separator
path_name(file_path) ==
  LET seps == positions(file_path, "/")
  IN  IF seps = {} THEN file_path
      ELSE SubSeq(file_path, highest(seps) + 1, Len(file_path))

\* Path(file_path).stem: the name without its last suffix; a name that only
\* starts or only ends with a dot has no suffix
stem(file_path) ==
  LET name == path_name(file_path)
      dots == positions(name, ".")
  IN  IF dots # {} /\ 1 < highest(dots) /\ highest(dots) < Len(name)
        THEN SubSeq(name, 1, highest(dots) - 1)
        ELSE name

\* str.endswith
ends_with(s, suffix) ==
  /\ Len(suffix) <= Len(s)
  /\ SubSeq(s, Len(s) - Len(suffix) + 1, Len(s)) = suffix

\* The test of line 308 on the file at index i of files_info
import_matches(import_name, files, i) ==
  LET file_name == stem(files[i].path)
  IN  file_name = import_name \/ ends_with(import_name, file_name)

\* _resolve_import: the path of the first file of files_info that matches, or
\* None, as Python values.  The loop of line 306 runs over every key:
\* current_file is not read.
resolve_import(import_name, current_file, files) ==
  LET matching == {i \in 1..Len(files) : import_matches(import_name, files, i)}
  IN  IF matching = {} THEN py_none ELSE py_str(files[lowest(matching)].path)

\* The edges line 293 appends for one file, in the order of its imports
file_dependencies(file_path, imports, files) ==
  LET resolved(imp) == truthy(resolve_import(imp.name, file_path, files))
      kept == SelectSeq(imports, resolved)
  IN  [k \in 1..Len(kept) |->
         [from |-> file_path,
          to |-> resolve_import(kept[k].name, file_path, files).v,
          import |-> kept[k].name,
          type |-> get(kept[k], "type", "unknown")]]

RECURSIVE dependencies_from(_, _)
dependencies_from(i, files) ==
  IF i > Len(files) THEN <<>>
  ELSE file_dependencies(files[i].path, get(files[i], "imports", <<>>), files)
       \o dependencies_from(i + 1, files)

\* _build_dependency_graph
build_dependency_graph(files) == dependencies_from(1, files)

\* str.join
RECURSIVE join(_, _)
join(separator, parts) ==
  IF parts = <<>> THEN <<>>
  ELSE IF Len(parts) = 1 THEN parts[1]
  ELSE parts[1] \o separator \o join(separator, Tail(parts))

part_separator == <<"\n","\n">>

truncation_marker == <<".",".",".","[","t","r","u","n","c","a","t","e","d","]">>

\* Lines 457-458 with the comparison of line 457 made non-strict
truncate_at_limit(joined, max_length) ==
  IF Len(joined) >= max_length
    THEN slice_to(joined, max_length) \o truncation_marker
    ELSE joined

\* Lines 457-460 of get_enhanced_context_for_ai: what it returns for the
\* joined context
truncate_context(joined, max_length) ==
  IF Len(joined) > max_length
    THEN slice_to(joined, max_length) \o truncation_marker
    ELSE joined

-----------------------------------------------------------------------------
(* Arguments the methods are called with *)

MaxLinterIssues == 2
MaxDeepseekIssues == 2
MaxAiSecurity == 1
MaxLinterSecurity == 11
MaxWarnings == 21

f_a == <<"a">>
f_b == <<"b">>
m_x == <<"x">>
m_upper_x == <<"X">>
m_y == <<"y">>
\* Messages longer than the compared prefix: pad_a and pad_b differ in the last
\* compared character, long_a and long_b only after it.
pad == [i \in 1..(PrefixLen - 1) |-> "p"]
m_pad_a == pad \o <<"a">>
m_pad_b == pad \o <<"b">>
m_long_a == pad \o <<"q", "a">>
m_long_b == pad \o <<"q", "b">>

\* Records as the linters of linter_service.py report them (any key may be
\* missing, severities come in the tools' own vocabulary and case).
LinterRecords ==
  { [tool |-> "pylint", severity |-> s_error, file |-> f_a, line |-> 1,
     column |-> 0, code |-> "E0602", message |-> m_x, suggestion |-> ""],
    [tool |-> "flake8", severity |-> <<"H","I","G","H">>, file |-> f_a, line |-> 1,
     column |-> 4, code |-> "E999", message |-> m_upper_x, suggestion |-> "fix"],
    [tool |-> "flake8", severity |-> s_style, file |-> f_a, line |-> 2,
     column |-> 0, code |-> "W291", message |-> m_long_a, suggestion |-> ""],
    [tool |-> "pylint", severity |-> s_info, file |-> f_a, line |-> 2,
     column |-> 0, code |-> "C0114", message |-> m_long_b, suggestion |-> ""],
    [tool |-> "bandit", severity |-> s_critical, line |-> 1,
     code |-> "B102", message |-> m_x],
    [tool |-> "pylint", severity |-> s_warning, file |-> f_b, line |-> 1,
     column |-> 0, code |-> "W0611", message |-> m_pad_a, suggestion |-> ""],
    [tool |-> "eslint", severity |-> <<"N","o","t","e">>, file |-> f_b, line |-> 1,
     column |-> 0, code |-> "unknown", message |-> m_pad_b, suggestion |-> ""],
    [code |-> "syntax-error"] }

\* Records as ModelRunner returns them and CodeReviewView.post annotates them
\* with the analysed file (views.py line 219).
DeepseekRecords ==
  { [severity |-> s_security, line |-> 1, message |-> m_x, suggestion |-> "",
     code |-> "AI_ANALYSIS", file |-> f_a, column |-> 0, tool |-> "shard-ai"],
    [severity |-> s_security, line |-> 1, message |-> m_x, suggestion |-> "",
     code |-> "AI_ANALYSIS", file |-> f_b, column |-> 0, tool |-> "shard-ai"],
    [severity |-> s_security, line |-> 1, message |-> m_y, suggestion |-> "",
     code |-> "AI_ANALYSIS", file |-> f_a, column |-> 0, tool |-> "shard-ai"],
    [severity |-> s_error, line |-> 2, message |-> m_upper_x, suggestion |-> "",
     code |-> "AI_ANALYSIS", file |-> f_a, column |-> 0, tool |-> "shard-ai"],
    [line |-> 1, message |-> m_y, severity |-> s_error, tool |-> "shard-ai",
     suggestion |-> "logs", file |-> f_b] }

SeqsUpTo(S, n) == UNION {[1..k -> S] : k \in 0..n}

\* n copies of x
repeat(x, n) == [i \in 1..n |-> x]

\* A canonical issue whose verdict-relevant fields are given
issue_of(tool, severity, code) ==
  [tool |-> tool, severity |-> severity, file |-> f_a, line |-> 1, column |-> 0,
   code |-> code, message |-> m_x, suggestion |-> ""]

i_ai_security     == issue_of("shard-ai", s_security, "AI_ANALYSIS")
i_linter_security == issue_of("bandit", s_security, "B102")
i_warning         == issue_of("pylint", s_warning, "W0611")
i_linter_error    == issue_of("pylint", s_error, "E0602")
i_ai_error        == issue_of("shard-ai", s_error, "AI_ANALYSIS")
i_syntax_error    == issue_of("pylint", s_error, "syntax-error")
i_syntax_warning  == issue_of("pylint", s_warning, "syntax-error")
i_style           == issue_of("flake8", s_style, "W291")
\* not well formed: a dict without 'severity'
i_no_severity     == [tool |-> "pylint", file |-> f_a, line |-> 1, message |-> m_x]

OtherIssues == <<i_linter_error, i_ai_error, i_syntax_error, i_syntax_warning,
                 i_style, i_no_severity>>

\* The issues of OtherIssues whose index is in `chosen`, in order
RECURSIVE pick(_, _)
pick(chosen, n) ==
  IF n = 0 THEN <<>>
  ELSE pick(chosen, n - 1) \o (IF n \in chosen THEN <<OtherIssues[n]>> ELSE <<>>)

\* Lists with about as many errors of the linters as the manual_review rule
\* allows, with and without security issues of the generative producer
ManyErrorLists ==
  { repeat(i_linter_error, e) \o repeat(i_ai_security, a) :
      e \in (LinterErrorLimit - 1)..(LinterErrorLimit + 1), a \in 0..MaxAiSecurity }

VerdictLists ==
  { repeat(i_ai_security, a) \o repeat(i_linter_security, b)
      \o repeat(i_warning, w) \o pick(chosen, Len(OtherIssues)) :
      a \in 0..MaxAiSecurity, b \in 0..MaxLinterSecurity, w \in 0..MaxWarnings,
      chosen \in SUBSET (1..Len(OtherIssues)) }
  \cup ManyErrorLists

Services == {"ai-review", "deploy"}

\* _map_severity arguments: the names of the table and of the vocabulary in
\* every mix of upper and lower case, names outside both, and every string
\* of up to MaxSeverityLen characters of SeverityAlphabet
MaxSeverityLen == 3

UpperOf == [c \in {LowerChars[i] : i \in 1..Len(LowerChars)} |->
              UpperChars[CHOOSE i \in 1..Len(LowerChars) : LowerChars[i] = c]]

RECURSIVE case_variants(_)
case_variants(s) ==
  IF s = <<>> THEN {<<>>}
  ELSE {<<c>> \o r : c \in {s[1]} \cup (IF s[1] \in DOMAIN UpperOf THEN {UpperOf[s[1]]} ELSE {}),
                     r \in case_variants(Tail(s))}

s_note == <<"n","o","t","e">>
s_unknown == <<"u","n","k","n","o","w","n">>

SeverityNames ==
  {s_high, s_medium, s_low, s_critical, s_major, s_minor, s_trivial,
   s_security, s_error, s_warning, s_style, s_info, s_note, s_unknown}

SeverityAlphabet == {"l", "o", "w", "L", "O", "-"}

SeverityStrings ==
  UNION {case_variants(n) : n \in SeverityNames}
  \cup SeqsUpTo(SeverityAlphabet, MaxSeverityLen)

\* The variables of the other specifications, and their values while the
\* specifications of merge_results and generate_verdict run
outside_merge == <<sev_vars, val_vars, parse_vars, ai_vars, review_vars, analyzer_vars>>

SeverityIdle == sev_arg = <<>> /\ sev_mapped = <<>> /\ sev_remapped = <<>>

ValidateIdle == val_issue = py_none /\ val_file_path = py_none /\ val_result = no_result

ParseIdle == response_text = py_none /\ parsed_issues = no_result

AiIdle ==
  /\ model_available = FALSE
  /\ model_output = no_result
  /\ ai_file_path = py_none
  /\ ai_result = no_result

ReviewIdle ==
  /\ important_files = <<>>
  /\ ai_runner = <<>>
  /\ response = <<>>
  /\ loaded_models = <<>>

GraphIdle == files_info = <<>> /\ dependencies = <<>>

ContextIdle ==
  /\ context_parts = <<>>
  /\ max_context_length = 0
  /\ full_context = <<>>
  /\ enhanced_context = <<>>

AnalyzerIdle == GraphIdle /\ ContextIdle

OutsideMergeIdle == SeverityIdle /\ ValidateIdle /\ ParseIdle /\ AiIdle /\ ReviewIdle /\ AnalyzerIdle

MergeIdle ==
  /\ linter_issues = <<>>
  /\ deepseek_issues = <<>>
  /\ all_issues = <<>>
  /\ deduplicated = <<>>
  /\ sorted_issues = <<>>
  /\ issues = <<>>
  /\ service = "ai-review"
  /\ verdict_result = no_result


-----------------------------------------------------------------------------
(* Records _validate_issue is called with *)

MaxLine == 1

m_eval_used == <<"e","v","a","l"," ","u","s","e","d">>
m_not_defined == <<"x"," ","i","s"," ","n","o","t"," ","d","e","f","i","n","e","d">>
m_syntax_eval == <<"S","y","n","t","a","x"," ","E","r","r","o","r"," ","n","e","a","r"," ","e","v","a","l">>
m_too_long == <<"l","i","n","e"," ","t","o","o"," ","l","o","n","g"," ","(","9","5"," ",">"," ","7","9"," ","c","h","a","r","a","c","t","e","r","s",")">>
m_unused_name_error == <<"U","n","u","s","e","d"," ","i","m","p","o","r","t"," ","o","s"," ","c","a","u","s","e","s"," ","a"," ","n","a","m","e"," ","e","r","r","o","r">>
m_redundant_exec == <<"R","e","d","u","n","d","a","n","t"," ","e","x","e","c"," ","c","a","l","l">>
m_possible_bug == <<"p","o","s","s","i","b","l","e"," ","b","u","g">>
m_executes == <<"e","x","e","c","u","t","e","s"," ","a"," ","q","u","e","r","y">>

\* A dict with the key, one for each value, and the dict without the key
optional(key, values) == {empty_dict} \cup {key :> v : v \in values}

MessageValues ==
  {py_str(m) : m \in {m_eval_used, m_not_defined, m_syntax_eval, m_too_long,
                      m_unused_name_error, m_redundant_exec, m_possible_bug,
                      m_executes, s_failed_to_parse}}
  \cup {py_int(5), py_none, py_list(<<py_str(<<"e","v","a","l">>), py_int(1)>>)}

ClaimedSeverities == {py_str(s_high), py_str(s_low), py_str(s_security)}

LineValues ==
  {py_int(n) : n \in 0..MaxLine}
  \cup {py_str(<<" ">> \o str_int(MaxLine + 6)), py_str(<<"-">> \o str_int(MaxLine)),
        py_str(<<"a","b","c">>), py_none}

ColumnValues == {py_int(0), py_str(<<"x">>)}

FileValues == {py_str(<<"b",".","p","y">>)}

ValidateRecords ==
  {py_dict(msg @@ sev @@ ln @@ col @@ fl) :
     msg \in optional(k_message, MessageValues),
     sev \in optional(k_severity, ClaimedSeverities),
     ln \in optional(k_line, LineValues),
     col \in optional(k_column, ColumnValues),
     fl \in optional(k_file, FileValues)}
  \cup {py_none, py_int(3), py_str(m_eval_used), py_list(<<py_str(m_eval_used)>>)}

FilePaths == {py_none, py_str(s_empty), py_str(<<"a",".","p","y">>)}


-----------------------------------------------------------------------------
(* Texts _clean_and_parse_json is called with *)

MaxFragments == 3

t_eval_used == <<"{","\"","m","e","s","s","a","g","e","\"",":","\"","e","v","a","l"," ","u","s","e","d","\"",",","\"","l","i","n","e","\"",":","3","}">>
t_too_long == <<"{","\"","m","e","s","s","a","g","e","\"",":","\"","l","i","n","e"," ","t","o","o"," ","l","o","n","g"," ","(","9","5"," ",">"," ","7","9"," ","c","h","a","r","a","c","t","e","r","s",")","\"",",","\"","s","e","v","e","r","i","t","y","\"",":","\"","h","i","g","h","\"","}">>
t_bad_line == <<"{","\"","m","e","s","s","a","g","e","\"",":","\"","x"," ","i","s"," ","n","o","t"," ","d","e","f","i","n","e","d","\"",",","\"","l","i","n","e","\"",":","\"","a","b","c","\"","}">>
t_possible_bug == <<"{","\"","m","e","s","s","a","g","e","\"",":","\"","p","o","s","s","i","b","l","e"," ","b","u","g","\"","}">>
t_issues_open == <<"{","\"","i","s","s","u","e","s","\"",":">>
t_prose == <<"H","e","r","e"," ","y","o","u"," ","g","o",":"," ">>

t_nested_open == <<"{","\"","a","\"",":">>

\* The pieces texts are made of
TextFragments ==
  {<<"[">>, <<"]">>, <<",">>, <<"}">>, t_issues_open, t_prose,
   t_eval_used, t_too_long, t_bad_line}

RECURSIVE concat(_)
concat(pieces) == IF pieces = <<>> THEN <<>> ELSE Head(pieces) \o concat(Tail(pieces))

\* Texts with a shape of their own: an array in prose, a wrapper with white
\* space, an array cut short, records of which one is a warning, values that
\* are no issue records, white space only, and arrays and objects nested
\* deeper than the recursion limit, alone and in prose
ShapedTexts ==
  {t_prose \o <<"[">> \o t_eval_used \o <<",">> \o t_possible_bug \o <<"]">> \o <<" ","T","h","a","n","k","s","!">>,
   <<"{"," ","\"","i","s","s","u","e","s","\""," ",":"," ","["," ">> \o t_eval_used \o <<" ", ",", "\n">> \o t_bad_line \o <<" ","]"," ","}">>,
   <<"[">> \o t_possible_bug \o <<",">> \o t_eval_used,
   <<"[">> \o t_too_long \o <<"]", " ">> \o t_eval_used,
   <<"[","5",","," ","\"","e","v","a","l","\"",","," ","n","u","l","l",","," ","t","r","u","e","]">>,
   <<"\"","e","v","a","l"," ","u","s","e","d","\"">>,
   <<" ", "\n">>,
   repeat("[", RecursionLimit + 1),
   t_prose \o repeat("[", RecursionLimit + 1) \o t_eval_used \o <<"]">>,
   t_prose \o concat(repeat(t_nested_open, RecursionLimit + 1)) \o <<"1">>
     \o repeat("}", RecursionLimit + 1) \o <<" ", "[">> \o t_eval_used \o <<",", "5", "]">>}

Texts ==
  {concat(pieces) : pieces \in SeqsUpTo(TextFragments, MaxFragments)} \cup ShapedTexts

\* Arguments of _clean_and_parse_json: texts, and values that are no str
ParseArguments == {py_str(t) : t \in Texts} \cup {py_none, py_int(5), py_list(<<py_str(t_eval_used)>>)}


-----------------------------------------------------------------------------
(* What the model answers in _run_ai_analysis *)

\* The texts the model returns, with white space around some of them
ModelTexts ==
  {concat(pieces) : pieces \in SeqsUpTo(TextFragments, MaxFragments - 1)}
  \cup ShapedTexts
  \cup {<<" ", "\n">> \o t_eval_used \o <<"\n">>}

ModelOutputs == {returned(py_str(t)) : t \in ModelTexts} \cup {raised("RuntimeError")}

AiFilePaths == {py_none, py_str(<<"a",".","p","y">>)}


-----------------------------------------------------------------------------
(* Review requests *)

\* The requests in flight together
Requests == {"r1", "r2"}

MaxFiles == 1

\* request.body: no JSON, JSON that is no object, an object without
\* 'projectId', an object with it
RequestBodies == {"invalid_json", "not_an_object", "no_project_id", "ok"}

\* The number of files collect_code_files_from_path gives
FileCounts == 0..MaxFiles

\* data.get('model_type', 'deepseek_lite')
RequestedModelTypes == {"deepseek_lite", "gpt"}

\* What run_all_linters returns
ReviewLinterLists == {<<>>, <<i_warning>>, <<i_linter_error>>}

\* An issue of ModelRunner._run_linting_analysis
i_pattern ==
  [line |-> 1, severity |-> s_security, message |-> m_x,
   suggestion |-> "Review usage of potentially insecure function or hardcoded secret."]

\* What _run_linting_analysis finds in a file
PatternLists == {<<>>, <<i_pattern>>}

\* What _run_ai_analysis returns for a file
AiLists == {<<>>, <<[k \in DOMAIN i_ai_error \ {"file"} |-> i_ai_error[k]]>>}

\* files[k]
file_name(k) == IF k = 1 THEN f_a ELSE f_b

-----------------------------------------------------------------------------
(* Files and context parts the ContextAnalyzer works on *)

MaxCollectedFiles == 2
MaxImports == 1
MaxContextParts == 2
MaxContextLength == 8

\* Keys of context["related_files"]: paths relative to the project
PythonPaths ==
  { <<"m","o","d","e","l","s",".","p","y">>,
    <<"a","p","p","/","m","o","d","e","l","s",".","p","y">>,
    <<"v","i","e","w","s",".","p","y">> }

\* What _analyze_python_file records for 'import models',
\* 'from django.db import models', 'import app.views' and 'import os'
ImportRecords ==
  { [name |-> <<"m","o","d","e","l","s">>, type |-> "import"],
    [name |-> <<"d","j","a","n","g","o",".","d","b",".","m","o","d","e","l","s">>, type |-> "from_import"],
    [name |-> <<"a","p","p",".","v","i","e","w","s">>, type |-> "import"],
    [name |-> <<"o","s">>, type |-> "import"] }

\* A file _analyze_generic_file describes has no "imports"
FileRecords ==
  {[path |-> p, imports |-> imps] :
     p \in PythonPaths, imps \in SeqsUpTo(ImportRecords, MaxImports)}
  \cup {[path |-> <<"R","E","A","D","M","E",".","m","d">>]}

\* A dict has each key once
FilesInfos ==
  UNION {{f \in [1..k -> FileRecords] :
            \A i, j \in 1..k : f[i].path = f[j].path => i = j} :
         k \in 0..MaxCollectedFiles}

ContextPartPool ==
  { <<"T">>, <<"P","s">>, <<"D","e","p">> }

ContextParts == SeqsUpTo(ContextPartPool, MaxContextParts)

ContextLengths == 0..MaxContextLength

-----------------------------------------------------------------------------
(* merge_results followed by generate_verdict, as CodeReviewView.post calls them *)

InitMerge ==
  /\ pc = "call_merge"
  /\ linter_issues \in SeqsUpTo(LinterRecords, MaxLinterIssues)
  /\ deepseek_issues \in SeqsUpTo(DeepseekRecords, MaxDeepseekIssues)
  /\ all_issues = <<>>
  /\ deduplicated = <<>>
  /\ sorted_issues = <<>>
  /\ issues = <<>>
  /\ service = "ai-review"
  /\ verdict_result = no_result
  /\ OutsideMergeIdle

MergeResults ==
  /\ pc = "call_merge"
  /\ all_issues' = merge_all(linter_issues, deepseek_issues)
  /\ deduplicated' = deduplicate_issues(all_issues')
  /\ sorted_issues' = sort_by_priority(deduplicated')
  /\ pc' = "merged"
  /\ UNCHANGED <<linter_issues, deepseek_issues, issues, service, verdict_result>>
  /\ UNCHANGED outside_merge

ReviewVerdict ==
  /\ pc = "merged"
  /\ issues' = sorted_issues
  /\ verdict_result' = generate_verdict(sorted_issues, service)
  /\ pc' = "done"
  /\ UNCHANGED <<linter_issues, deepseek_issues, all_issues, deduplicated,
                 sorted_issues, service>>
  /\ UNCHANGED outside_merge

NextMerge == MergeResults \/ ReviewVerdict

SpecMerge == InitMerge /\ [][NextMerge]_vars

-----------------------------------------------------------------------------
(* generate_verdict on any issue list and service *)

InitVerdict ==
  /\ pc = "call_verdict"
  /\ issues \in VerdictLists
  /\ service \in Services
  /\ linter_issues = <<>>
  /\ deepseek_issues = <<>>
  /\ all_issues = <<>>
  /\ deduplicated = <<>>
  /\ sorted_issues = <<>>
  /\ verdict_result = no_result
  /\ OutsideMergeIdle

GenerateVerdict ==
  /\ pc = "call_verdict"
  /\ verdict_result' = generate_verdict(issues, service)
  /\ pc' = "done"
  /\ UNCHANGED <<linter_issues, deepseek_issues, all_issues, deduplicated,
                 sorted_issues, issues, service>>
  /\ UNCHANGED outside_merge

NextVerdict == GenerateVerdict

SpecVerdict == InitVerdict /\ [][NextVerdict]_vars

-----------------------------------------------------------------------------
(* _map_severity on a severity string, and again on what it returned *)

outside_severity == <<merge_vars, val_vars, parse_vars, ai_vars, review_vars, analyzer_vars>>

OutsideSeverityIdle == MergeIdle /\ ValidateIdle /\ ParseIdle /\ AiIdle /\ ReviewIdle /\ AnalyzerIdle

InitSeverity ==
  /\ pc = "call_map"
  /\ sev_arg \in SeverityStrings
  /\ sev_mapped = <<>>
  /\ sev_remapped = <<>>
  /\ OutsideSeverityIdle

MapSeverity ==
  /\ pc = "call_map"
  /\ sev_mapped' = map_severity(sev_arg)
  /\ pc' = "mapped"
  /\ UNCHANGED <<sev_arg, sev_remapped>>
  /\ UNCHANGED outside_severity

MapSeverityAgain ==
  /\ pc = "mapped"
  /\ sev_remapped' = map_severity(sev_mapped)
  /\ pc' = "remapped"
  /\ UNCHANGED <<sev_arg, sev_mapped>>
  /\ UNCHANGED outside_severity

NextSeverity == MapSeverity \/ MapSeverityAgain

SpecSeverity == InitSeverity /\ [][NextSeverity]_vars


-----------------------------------------------------------------------------
(* _validate_issue on a record and a file path *)

outside_validate == <<merge_vars, sev_vars, parse_vars, ai_vars, review_vars, analyzer_vars>>

OutsideValidateIdle == MergeIdle /\ SeverityIdle /\ ParseIdle /\ AiIdle /\ ReviewIdle /\ AnalyzerIdle

InitValidate ==
  /\ pc = "call_validate"
  /\ val_issue \in ValidateRecords
  /\ val_file_path \in FilePaths
  /\ val_result = no_result
  /\ OutsideValidateIdle

ValidateIssue ==
  /\ pc = "call_validate"
  /\ val_result' = validate_issue(val_issue, val_file_path)
  /\ pc' = "validated"
  /\ UNCHANGED <<val_issue, val_file_path>>
  /\ UNCHANGED outside_validate

NextValidate == ValidateIssue

SpecValidate == InitValidate /\ [][NextValidate]_vars


-----------------------------------------------------------------------------
(* _clean_and_parse_json on a text *)

outside_parse == <<merge_vars, sev_vars, val_vars, ai_vars, review_vars, analyzer_vars>>

OutsideParseIdle == MergeIdle /\ SeverityIdle /\ ValidateIdle /\ AiIdle /\ ReviewIdle /\ AnalyzerIdle

InitParse ==
  /\ pc = "call_parse"
  /\ response_text \in ParseArguments
  /\ parsed_issues = no_result
  /\ OutsideParseIdle

CleanAndParseJson ==
  /\ pc = "call_parse"
  /\ parsed_issues' = clean_and_parse_json(response_text)
  /\ pc' = "parsed"
  /\ UNCHANGED response_text
  /\ UNCHANGED outside_parse

NextParse == CleanAndParseJson

SpecParse == InitParse /\ [][NextParse]_vars


-----------------------------------------------------------------------------
(* _run_ai_analysis on a file, for each way the model can answer *)

outside_ai == <<merge_vars, sev_vars, val_vars, review_vars, analyzer_vars>>

OutsideAiIdle == MergeIdle /\ SeverityIdle /\ ValidateIdle /\ ReviewIdle /\ AnalyzerIdle

InitRunAi ==
  /\ pc = "call_ai"
  /\ model_available \in BOOLEAN
  /\ model_output \in (IF model_available THEN ModelOutputs ELSE {no_result})
  /\ ai_file_path \in AiFilePaths
  /\ ai_result = no_result
  /\ ParseIdle
  /\ OutsideAiIdle

RunAiAnalysis ==
  /\ pc = "call_ai"
  /\ IF ~model_available
     THEN /\ ai_result' = returned(py_list(<<>>))
          /\ UNCHANGED <<response_text, parsed_issues>>
     ELSE IF model_output.status = "raised"
     THEN /\ ai_result' = returned(py_list(<<analysis_failed_issue>>))
          /\ UNCHANGED <<response_text, parsed_issues>>
     ELSE /\ response_text' = py_str(strip(model_output.value.v))
          /\ parsed_issues' = clean_and_parse_json(response_text')
          /\ ai_result' = run_ai_result(parsed_issues', ai_file_path)
  /\ pc' = "analyzed"
  /\ UNCHANGED <<model_available, model_output, ai_file_path>>
  /\ UNCHANGED outside_ai

NextRunAi == RunAiAnalysis

SpecRunAi == InitRunAi /\ [][NextRunAi]_vars


-----------------------------------------------------------------------------
(* Concurrent review requests: CodeReviewView.post, one process per request. *)
(* pc, linter_issues, deepseek_issues and verdict_result hold one value per  *)
(* request.  Steps of different requests interleave where post reads or      *)
(* writes model_manager or runs the model.                                   *)

outside_review == <<all_issues, deduplicated, sorted_issues, issues, service,
                    sev_vars, val_vars, parse_vars, ai_vars, analyzer_vars>>

OutsideReviewIdle ==
  /\ all_issues = <<>>
  /\ deduplicated = <<>>
  /\ sorted_issues = <<>>
  /\ issues = <<>>
  /\ service = "ai-review"
  /\ SeverityIdle /\ ValidateIdle /\ ParseIdle /\ AiIdle /\ AnalyzerIdle

InitReview ==
  /\ pc = [r \in Requests |-> "receive"]
  /\ linter_issues = [r \in Requests |-> <<>>]
  /\ deepseek_issues = [r \in Requests |-> <<>>]
  /\ verdict_result = [r \in Requests |-> no_result]
  /\ important_files = [r \in Requests |-> <<>>]
  /\ ai_runner = [r \in Requests |-> no_runner]
  /\ response = [r \in Requests |-> no_response]
  /\ loaded_models = empty_dict
  /\ OutsideReviewIdle

\* Faulty variant: a return leaves post at once, the finally clause is not run
respond_and_leave(r, answer) ==
  /\ response' = [response EXCEPT ![r] = answer]
  /\ pc' = [pc EXCEPT ![r] = "done"]

\* return ...: the response is fixed, the finally clause is still to run
Respond(r, answer) ==
  /\ response' = [response EXCEPT ![r] = answer]
  /\ pc' = [pc EXCEPT ![r] = "finally"]

\* Lines 117-203: the request is read and checked, the repository is looked
\* up, the linters run, the ModelRunner is made
Receive(r) ==
  /\ pc[r] = "receive"
  /\ \E body \in RequestBodies, repository_found \in BOOLEAN, file_count \in FileCounts,
        found \in ReviewLinterLists, model_type \in RequestedModelTypes :
       IF body = "invalid_json" THEN
         /\ Respond(r, invalid_json_response)
         /\ UNCHANGED <<linter_issues, important_files, ai_runner>>
       ELSE IF body = "not_an_object" THEN
         /\ Respond(r, review_failed_response)
         /\ UNCHANGED <<linter_issues, important_files, ai_runner>>
       ELSE IF body = "no_project_id" THEN
         /\ Respond(r, missing_project_response)
         /\ UNCHANGED <<linter_issues, important_files, ai_runner>>
       ELSE IF ~repository_found THEN
         /\ Respond(r, repository_not_found_response)
         /\ UNCHANGED <<linter_issues, important_files, ai_runner>>
       ELSE IF file_count = 0 THEN
         /\ Respond(r, no_files_response)
         /\ UNCHANGED <<linter_issues, important_files, ai_runner>>
       ELSE IF model_type \notin ModelTypes THEN
         /\ linter_issues' = [linter_issues EXCEPT ![r] = found]
         /\ Respond(r, invalid_model_response)
         /\ UNCHANGED <<important_files, ai_runner>>
       ELSE
         /\ linter_issues' = [linter_issues EXCEPT ![r] = found]
         /\ ai_runner' = [ai_runner EXCEPT ![r] = new_runner(model_type)]
         /\ important_files' = [important_files EXCEPT ![r] =
              [k \in 1..(IF file_count < AiFileLimit THEN file_count ELSE AiFileLimit) |-> file_name(k)]]
         /\ pc' = [pc EXCEPT ![r] = "next_file"]
         /\ UNCHANGED response
  /\ UNCHANGED <<deepseek_issues, verdict_result, loaded_models>>
  /\ UNCHANGED outside_review

\* The issues of one file are added to deepseek_issues and the loop goes on
FileAnalyzed(r, found) ==
  /\ deepseek_issues' = [deepseek_issues EXCEPT ![r] =
       @ \o with_file(found, Head(important_files[r]))]
  /\ important_files' = [important_files EXCEPT ![r] = Tail(@)]
  /\ pc' = [pc EXCEPT ![r] = "next_file"]

\* Lines 208-218 and ModelRunner.analyze up to ModelManager.get_loaded_model's
\* look into the cache: the next file is read, a file that cannot be read is
\* skipped; after the last file the loop ends
NextFile(r) ==
  /\ pc[r] = "next_file"
  /\ IF important_files[r] = <<>> THEN
       /\ pc' = [pc EXCEPT ![r] = "merge"]
       /\ UNCHANGED <<deepseek_issues, important_files, ai_runner>>
     ELSE \E readable \in BOOLEAN :
       IF ~readable THEN
         /\ important_files' = [important_files EXCEPT ![r] = Tail(@)]
         /\ UNCHANGED <<pc, deepseek_issues, ai_runner>>
       ELSE IF ai_runner[r].model # no_model THEN
         /\ pc' = [pc EXCEPT ![r] = "call_model"]
         /\ UNCHANGED <<deepseek_issues, important_files, ai_runner>>
       ELSE IF ai_runner[r].model_type \in DOMAIN loaded_models THEN
         /\ ai_runner' = [ai_runner EXCEPT ![r].model = loaded_models[ai_runner[r].model_type]]
         /\ pc' = [pc EXCEPT ![r] = "call_model"]
         /\ UNCHANGED <<deepseek_issues, important_files>>
       ELSE
         /\ pc' = [pc EXCEPT ![r] = "load_model"]
         /\ UNCHANGED <<deepseek_issues, important_files, ai_runner>>
  /\ UNCHANGED <<linter_issues, verdict_result, response, loaded_models>>
  /\ UNCHANGED outside_review

\* ModelManager._load_model and the rest of get_loaded_model: a model that
\* loads is put into the cache and kept by the runner; without a model
\* analyze returns what _run_linting_analysis found
LoadModel(r) ==
  /\ pc[r] = "load_model"
  /\ \E loaded \in BOOLEAN :
       IF loaded THEN
         /\ loaded_models' = (ai_runner[r].model_type :> model_instance(r)) @@ loaded_models
         /\ ai_runner' = [ai_runner EXCEPT ![r].model = model_instance(r)]
         /\ pc' = [pc EXCEPT ![r] = "call_model"]
         /\ UNCHANGED <<deepseek_issues, important_files>>
       ELSE \E found \in PatternLists :
         /\ FileAnalyzed(r, found)
         /\ UNCHANGED <<ai_runner, loaded_models>>
  /\ UNCHANGED <<linter_issues, verdict_result, response>>
  /\ UNCHANGED outside_review

\* _run_ai_analysis calls self.model(prompt, ...)
CallModel(r) ==
  /\ pc[r] = "call_model"
  /\ pc' = [pc EXCEPT ![r] = "model_running"]
  /\ UNCHANGED <<linter_issues, deepseek_issues, verdict_result, review_vars>>
  /\ UNCHANGED outside_review

\* The model answers or raises; analyze returns the issues of the patterns
\* and of _run_ai_analysis
ModelReturns(r) ==
  /\ pc[r] = "model_running"
  /\ \E found \in PatternLists, ai_issues \in AiLists :
       FileAnalyzed(r, found \o ai_issues)
  /\ UNCHANGED <<linter_issues, verdict_result, ai_runner, response, loaded_models>>
  /\ UNCHANGED outside_review

\* Lines 226-254: merge_results, generate_verdict and the response; an
\* exception gives the response of 'except Exception'
MergeAndRespond(r) ==
  /\ pc[r] = "merge"
  /\ verdict_result' = [verdict_result EXCEPT ![r] =
       generate_verdict(merge_results(linter_issues[r], deepseek_issues[r]), "ai-review")]
  /\ LET answer == IF verdict_result'[r].status = "raised" THEN verdict_result'[r]
                   ELSE review_response(verdict_result'[r], linter_issues[r],
                          deepseek_issues[r], ai_runner[r].model_type, loaded_models)
     IN Respond(r, IF answer.status = "raised" THEN review_failed_response
                   ELSE answer.value)
  /\ UNCHANGED <<linter_issues, deepseek_issues, important_files, ai_runner, loaded_models>>
  /\ UNCHANGED outside_review

\* finally: model_manager.unload_all_models()
Finally(r) ==
  /\ pc[r] = "finally"
  /\ loaded_models' = empty_dict
  /\ pc' = [pc EXCEPT ![r] = "done"]
  /\ UNCHANGED <<linter_issues, deepseek_issues, verdict_result, important_files,
                 ai_runner, response>>
  /\ UNCHANGED outside_review

NextReview ==
  \E r \in Requests :
    \/ Receive(r)
    \/ NextFile(r)
    \/ LoadModel(r)
    \/ CallModel(r)
    \/ ModelReturns(r)
    \/ MergeAndRespond(r)
    \/ Finally(r)

SpecReview == InitReview /\ [][NextReview]_vars

-----------------------------------------------------------------------------
(* _build_dependency_graph on the collected files *)

outside_graph == <<merge_vars, sev_vars, val_vars, parse_vars, ai_vars, review_vars,
                   context_vars>>

OutsideGraphIdle ==
  /\ MergeIdle /\ SeverityIdle /\ ValidateIdle /\ ParseIdle /\ AiIdle /\ ReviewIdle
  /\ ContextIdle

InitGraph ==
  /\ pc = "call_build_graph"
  /\ files_info \in FilesInfos
  /\ dependencies = <<>>
  /\ OutsideGraphIdle

BuildDependencyGraph ==
  /\ pc = "call_build_graph"
  /\ dependencies' = build_dependency_graph(files_info)
  /\ pc' = "graph_built"
  /\ UNCHANGED files_info
  /\ UNCHANGED outside_graph

NextGraph == BuildDependencyGraph

SpecGraph == InitGraph /\ [][NextGraph]_vars


-----------------------------------------------------------------------------
(* get_enhanced_context_for_ai from the context parts on: lines 453-460 *)

outside_context == <<merge_vars, sev_vars, val_vars, parse_vars, ai_vars, review_vars,
                     graph_vars>>

OutsideContextIdle ==
  /\ MergeIdle /\ SeverityIdle /\ ValidateIdle /\ ParseIdle /\ AiIdle /\ ReviewIdle
  /\ GraphIdle

InitContext ==
  /\ pc = "call_get_context"
  /\ context_parts \in ContextParts
  /\ max_context_length \in ContextLengths
  /\ full_context = <<>>
  /\ enhanced_context = <<>>
  /\ OutsideContextIdle

GetEnhancedContext ==
  /\ pc = "call_get_context"
  /\ full_context' = join(part_separator, context_parts)
  /\ enhanced_context' = truncate_context(full_context', max_context_length)
  /\ pc' = "context_returned"
  /\ UNCHANGED <<context_parts, max_context_length>>
  /\ UNCHANGED outside_context

NextContext == GetEnhancedContext

SpecContext == InitContext /\ [][NextContext]_vars

-----------------------------------------------------------------------------
(* Properties of generate_verdict, checked under SpecVerdict *)

\* The five severities of the issue vocabulary
CanonicalSeverities == {s_security, s_error, s_warning, s_style, s_info}

\* Every dict of the list has the 'severity' key generate_verdict indexes
well_formed(list) == \A i \in 1..Len(list) : "severity" \in DOMAIN list[i]

\* The number of issues of a severity
severity_count(list, severity) ==
  Cardinality({i \in 1..Len(list) : list[i].severity = severity})

\* The number of security issues of the generative producer
ai_security_count(list) ==
  Cardinality({i \in 1..Len(list) :
                 list[i].tool = "shard-ai" /\ list[i].severity = s_security})

\* Some issue has code 'syntax-error' and severity 'error'
has_syntax_error_issue(list) ==
  \E i \in 1..Len(list) :
     list[i].code = "syntax-error" /\ list[i].severity = s_error

\* generate_verdict has returned for a well-formed list
verdict_returned ==
  pc = "done" /\ well_formed(issues) /\ verdict_result.status = "returned"

\* C1: a list with an issue of code 'syntax-error' and severity 'error' is
\* denied with the syntax-error reason, whatever else it holds and whatever
\* the service is.
C1_SyntaxErrorDenies ==
  (pc = "done" /\ well_formed(issues) /\ has_syntax_error_issue(issues))
    => /\ verdict_result.status = "returned"
       /\ verdict_result.verdict = "deny"
       /\ verdict_result.reason =
            <<"Syntax error(s) found. Code cannot be deployed.">>

\* A syntax error among AI security issues and more warnings than the limit,
\* followed by other issues, for the service 'ai-review'
C1_Witness ==
  /\ verdict_returned
  /\ has_syntax_error_issue(issues)
  /\ service = "ai-review"
  /\ ai_security_count(issues) > 0
  /\ severity_count(issues, s_warning) > 20
  /\ issues[Len(issues)].code # "syntax-error"
  /\ verdict_result.verdict = "deny"

\* C2: with no syntax-error issue and at least one issue of severity 'error',
\* the verdict is 'deny' and the reason states the number of error issues,
\* whatever the service and the numbers of security and warning issues.
C2_ErrorsDeny ==
  (pc = "done" /\ well_formed(issues) /\ ~has_syntax_error_issue(issues)
     /\ severity_count(issues, s_error) >= 1)
    => /\ verdict_result.status = "returned"
       /\ verdict_result.verdict = "deny"
       /\ verdict_result.reason =
            <<"Deployment denied due to ">>
            \o str_int(severity_count(issues, s_error))
            \o <<" critical error(s).">>

\* Exactly one error, no syntax error, no security issue, no warning
C2_Witness ==
  /\ verdict_returned
  /\ ~has_syntax_error_issue(issues)
  /\ severity_count(issues, s_error) = 1
  /\ severity_count(issues, s_security) = 0
  /\ severity_count(issues, s_warning) = 0
  /\ verdict_result.verdict = "deny"

\* C3: the verdict is 'manual_review' exactly when no issue is an error, at
\* most 10 are security issues, at most 20 are warnings, the service is
\* 'ai-review' and some issue of tool 'shard-ai' has severity 'security'; the
\* reason then cites the number of such issues.
C3_ManualReviewExactly ==
  (pc = "done" /\ well_formed(issues))
    => /\ verdict_result.status = "returned"
       /\ verdict_result.verdict = "manual_review"
            <=> /\ severity_count(issues, s_error) = 0
                /\ severity_count(issues, s_security) <= 10
                /\ severity_count(issues, s_warning) <= 20
                /\ service = "ai-review"
                /\ ai_security_count(issues) >= 1
       /\ verdict_result.verdict = "manual_review"
            => verdict_result.reason =
                 str_int(ai_security_count(issues))
                 \o <<" security issue(s) require manual review before deployment.">>

\* Manual review at both limits: 10 security issues and 20 warnings
C3_Witness ==
  /\ verdict_returned
  /\ severity_count(issues, s_security) = 10
  /\ severity_count(issues, s_warning) = 20
  /\ verdict_result.verdict = "manual_review"

\* C4: with no error issue, more than 10 security issues deny with a reason
\* citing their number; exactly 10 do not trigger this rule.
C4_SecurityLimit ==
  (pc = "done" /\ well_formed(issues) /\ severity_count(issues, s_error) = 0)
    => /\ verdict_result.status = "returned"
       /\ severity_count(issues, s_security) > 10
            => /\ verdict_result.verdict = "deny"
               /\ verdict_result.reason =
                    <<"Deployment denied due to excessive security vulnerabilities (">>
                    \o str_int(severity_count(issues, s_security))
                    \o <<" found).">>
       /\ severity_count(issues, s_security) = 10
            => verdict_result.reason[1] #
                 "Deployment denied due to excessive security vulnerabilities ("

\* 11 security issues are denied
C4_Witness ==
  /\ verdict_returned
  /\ severity_count(issues, s_error) = 0
  /\ severity_count(issues, s_security) = 11
  /\ verdict_result.verdict = "deny"

\* C5: with no error issue and at most 10 security issues, more than 20
\* warnings deny with a reason citing their number; exactly 20 do not trigger
\* this rule.
C5_WarningLimit ==
  (pc = "done" /\ well_formed(issues) /\ severity_count(issues, s_error) = 0
     /\ severity_count(issues, s_security) <= 10)
    => /\ verdict_result.status = "returned"
       /\ severity_count(issues, s_warning) > 20
            => /\ verdict_result.verdict = "deny"
               /\ verdict_result.reason =
                    <<"Deployment denied due to an excessive number of warnings (">>
                    \o str_int(severity_count(issues, s_warning))
                    \o <<" found).">>
       /\ severity_count(issues, s_warning) = 20
            => verdict_result.reason[1] #
                 "Deployment denied due to an excessive number of warnings ("

\* 21 warnings are denied
C5_Witness ==
  /\ verdict_returned
  /\ severity_count(issues, s_error) = 0
  /\ severity_count(issues, s_security) <= 10
  /\ severity_count(issues, s_warning) = 21
  /\ verdict_result.verdict = "deny"

\* C6: generate_verdict returns for every well-formed list; the verdict is
\* 'allow' exactly when no deny rule and not the manual_review rule applies,
\* and its reason then cites the total number of issues; the empty list is
\* allowed with issue_count 0.
C6_AllowOtherwise ==
  (pc = "done" /\ well_formed(issues))
    => /\ verdict_result.status = "returned"
       /\ verdict_result.verdict = "allow"
            <=> ~ \/ severity_count(issues, s_error) >= 1
                  \/ severity_count(issues, s_security) > 10
                  \/ severity_count(issues, s_warning) > 20
                  \/ service = "ai-review" /\ ai_security_count(issues) > 0
       /\ verdict_result.verdict = "allow"
            => verdict_result.reason =
                 <<"Code approved. ">> \o str_int(Len(issues))
                 \o <<" minor issues found.">>
       /\ issues = <<>>
            => /\ verdict_result.verdict = "allow"
               /\ verdict_result.issue_count = 0

\* The empty list is allowed
C6_Witness ==
  /\ verdict_returned
  /\ issues = <<>>
  /\ verdict_result.verdict = "allow"
  /\ verdict_result.issue_count = 0


\* C21: the severity_breakdown of every verdict has a count for each of the
\* five canonical severities, a zero for a severity no issue has, on the
\* syntax-error path too.
C21_FullBreakdown ==
  verdict_returned =>
    \A severity \in CanonicalSeverities :
       severity \in DOMAIN verdict_result.severity_breakdown

\* C22: on every decision path generate_verdict returns its whole input list
\* in the same order as 'issues' and its length as issue_count, and the
\* input list is after the call what it was before: nothing is cut,
\* reordered or written.
C22_InputReturnedWhole ==
  [][(pc = "call_verdict" /\ well_formed(issues)) =>
       /\ issues' = issues
       /\ verdict_result'.status = "returned"
       /\ verdict_result'.issues = issues
       /\ verdict_result'.issue_count = Len(issues)]_vars

\* A verdict on the syntax-error path for a list of more than twenty issues
C22_Witness ==
  /\ verdict_returned
  /\ Len(issues) > WarningLimit
  /\ has_syntax_error_issue(issues)
  /\ verdict_result.issues = issues

\* The decision policy with the guard 'linter_error_count < 20' left out of
\* the manual_review rule, stated on the list itself: <<verdict, reason>>
policy_without_guard(list, svc) ==
  IF has_syntax_error_issue(list) THEN <<"deny", reason_syntax>>
  ELSE IF severity_count(list, s_error) >= 1
    THEN <<"deny", reason_errors(severity_count(list, s_error))>>
  ELSE IF severity_count(list, s_security) > SecurityLimit
    THEN <<"deny", reason_security(severity_count(list, s_security))>>
  ELSE IF severity_count(list, s_warning) > WarningLimit
    THEN <<"deny", reason_warnings(severity_count(list, s_warning))>>
  ELSE IF svc = "ai-review" /\ ai_security_count(list) > 0
    THEN <<"manual_review", reason_manual(ai_security_count(list))>>
  ELSE <<"allow", reason_allow(Len(list))>>

\* The number of errors of the linters
linter_error_count(list) ==
  Cardinality({i \in 1..Len(list) :
                 list[i].tool # "shard-ai" /\ list[i].severity = s_error})

\* C29: the guard 'linter_error_count < 20' of the manual_review rule never
\* decides: for every list and service generate_verdict returns the verdict
\* and the reason of the policy without that guard.
C29_GuardNeverDecides ==
  verdict_returned =>
    <<verdict_result.verdict, verdict_result.reason>> = policy_without_guard(issues, service)

\* The guard is false for a list the manual_review rule would otherwise
\* accept, and the list was denied for its errors
C29_Witness ==
  /\ verdict_returned
  /\ service = "ai-review"
  /\ ai_security_count(issues) > 0
  /\ linter_error_count(issues) >= LinterErrorLimit
  /\ verdict_result.verdict = "deny"
  /\ verdict_result.reason = reason_errors(severity_count(issues, s_error))

-----------------------------------------------------------------------------
(* Properties of merge_results, checked under SpecMerge *)

\* Whether the issue comes from the generative producer
is_generative(issue) == issue.tool = "shard-ai"

\* (severityPriority, isFromGenerativeProducer) of a is at least that of b
preferred_or_equal(a, b) ==
  \/ SEVERITY_PRIORITY(a.severity) > SEVERITY_PRIORITY(b.severity)
  \/ /\ SEVERITY_PRIORITY(a.severity) = SEVERITY_PRIORITY(b.severity)
     /\ (is_generative(b) => is_generative(a))

\* C7: of the issues of one (file, line) group that share a 50-character
\* lower-cased message prefix, the one kept is greatest under
\* (severityPriority, isFromGenerativeProducer): no issue of the input with
\* the same group and prefix has a higher severity priority, or the same
\* priority and tool 'shard-ai' while the kept one is a linter's.
C7_KeptIsPreferred ==
  pc # "call_merge" =>
    \A i \in 1..Len(all_issues), k \in 1..Len(deduplicated) :
       (/\ group_key(all_issues[i]) = group_key(deduplicated[k])
        /\ message_key(all_issues[i]) = message_key(deduplicated[k]))
         => preferred_or_equal(deduplicated[k], all_issues[i])

\* The file, line and message prefix a producer reported for an issue
reported(raw) ==
  <<get(raw, "file", s_empty), get(raw, "line", 0),
    slice_to(lower(get(raw, "message", s_empty)), 50)>>

reported_by_producers ==
  {reported(linter_issues[i]) : i \in 1..Len(linter_issues)}
  \cup {reported(deepseek_issues[i]) : i \in 1..Len(deepseek_issues)}

\* C8: merge_results drops an issue only when another input issue has the
\* same file, line and message prefix, so the merged list has at least one
\* issue for every distinct (file, line, prefix) the producers reported;
\* issues reported for different files are never merged into one.
C8_OnlySameFileMerged ==
  pc # "call_merge" => Len(sorted_issues) >= Cardinality(reported_by_producers)

\* The priorities the ranking is stated with
rank_priority(severity) ==
  CASE severity = s_security -> 4
    [] severity = s_error    -> 3
    [] severity = s_warning  -> 2
    [] severity = s_style    -> 1
    [] severity = s_info     -> 1
    [] OTHER                 -> 0

\* (-severityPriority, file, line) of a is less than that of b
rank_key_less(a, b) ==
  \/ rank_priority(a.severity) > rank_priority(b.severity)
  \/ /\ rank_priority(a.severity) = rank_priority(b.severity)
     /\ \/ str_less(a.file, b.file)
        \/ a.file = b.file /\ a.line < b.line

rank_key_equal(a, b) ==
  /\ rank_priority(a.severity) = rank_priority(b.severity)
  /\ a.file = b.file
  /\ a.line = b.line

C10_DedupIdempotent ==
  pc # "call_merge" =>
    /\ deduplicate_issues(deduplicated) = deduplicated
    /\ deduplicate_issues(deduplicated \o deduplicated) = deduplicated

\* A deduplication that dropped an issue and kept two of one (file, line)
\* group, with another group beside it
C10_Witness ==
  /\ pc = "merged"
  /\ Len(deduplicated) < Len(all_issues)
  /\ Len(deduplicated) >= 3
  /\ \E i, j \in 1..Len(deduplicated) :
        i # j /\ group_key(deduplicated[i]) = group_key(deduplicated[j])
  /\ \E i, j \in 1..Len(deduplicated) :
        group_key(deduplicated[i]) # group_key(deduplicated[j])

\* C11: every issue of the list merge_results returns has one of the five
\* severities security, error, warning, style, info, whatever severity the
\* producers' records carried.
C11_CanonicalSeverity ==
  pc # "call_merge" =>
    \A i \in 1..Len(sorted_issues) : sorted_issues[i].severity \in CanonicalSeverities


\* How often x occurs in a list
occurrences(list, x) == Cardinality({i \in 1..Len(list) : list[i] = x})

\* The issues of a list that are of the (file, line) of x
same_place(list, x) ==
  {list[i] : i \in {j \in 1..Len(list) : list[j].file = x.file /\ list[j].line = x.line}}

\* The highest severity priority among a non-empty set of issues
highest_priority(some_issues) ==
  CHOOSE p \in {rank_priority(x.severity) : x \in some_issues} :
    \A x \in some_issues : rank_priority(x.severity) <= p

\* C30: what _deduplicate_issues returns is a sub-multiset of its input; it
\* keeps an issue of every (file, line) of the input, and the highest
\* severity priority it keeps at a (file, line) is the highest the input has
\* there.
C30_DedupKeepsTheWorst ==
  pc # "call_merge" =>
    /\ \A i \in 1..Len(deduplicated) :
          occurrences(deduplicated, deduplicated[i]) <= occurrences(all_issues, deduplicated[i])
    /\ \A i \in 1..Len(all_issues) :
          /\ same_place(deduplicated, all_issues[i]) # {}
          /\ highest_priority(same_place(deduplicated, all_issues[i]))
               = highest_priority(same_place(all_issues, all_issues[i]))

\* An issue was dropped at a (file, line) where the input has issues of two
\* severity priorities
C30_Witness ==
  /\ pc = "merged"
  /\ \E i, j \in 1..Len(all_issues) :
        /\ all_issues[i].file = all_issues[j].file
        /\ all_issues[i].line = all_issues[j].line
        /\ rank_priority(all_issues[i].severity) < rank_priority(all_issues[j].severity)
        /\ all_issues[i] \notin same_place(deduplicated, all_issues[i])
        /\ all_issues[j] \in same_place(deduplicated, all_issues[i])

-----------------------------------------------------------------------------
(* Properties of _map_severity, checked under SpecSeverity *)

\* What the table of _map_severity holds for a lower-case key
severity_table(key) ==
  CASE key = s_high     -> s_error
    [] key = s_medium   -> s_warning
    [] key = s_low      -> s_info
    [] key = s_critical -> s_security
    [] key = s_major    -> s_error
    [] key = s_minor    -> s_warning
    [] key = s_trivial  -> s_style

SeverityTableKeys ==
  {s_high, s_medium, s_low, s_critical, s_major, s_minor, s_trivial}

\* C12: _map_severity applied to its own result returns that result; a
\* string whose lower case is a key of the table (high, medium, low,
\* critical, major, minor, trivial) is mapped to the key's entry whatever its
\* case; every other string is returned lower-cased and otherwise unchanged.
C12_MapSeverityIdempotent ==
  /\ pc = "remapped" => sev_remapped = sev_mapped
  /\ pc # "call_map" =>
       IF lower(sev_arg) \in SeverityTableKeys
       THEN sev_mapped = severity_table(lower(sev_arg))
       ELSE /\ Len(sev_mapped) = Len(sev_arg)
            /\ \A i \in 1..Len(sev_arg) :
                  sev_mapped[i] = lower_char(sev_arg[i])

\* A table key in mixed case was mapped and mapped again
C12_Witness ==
  /\ pc = "remapped"
  /\ sev_arg = <<"C","r","I","t","i","c","a","L">>
  /\ sev_mapped = s_security
  /\ sev_remapped = s_security

-----------------------------------------------------------------------------
(* Properties of _validate_issue, checked under SpecValidate *)

\* _validate_issue returned an issue
issue_validated ==
  pc = "validated" /\ val_result.status = "returned" /\ is_dict(val_result.value)

\* The record with another claimed severity, or with none
with_severity(issue, sev) == py_dict(sev @@ [k \in DOMAIN issue.v \ {k_severity} |-> issue.v[k]])

\* C16: the severity of an issue _validate_issue returns depends on the
\* lower-cased message only: 'error' if it contains a blocking keyword,
\* otherwise 'security' if it contains a security keyword, otherwise
\* 'warning'; a record that differs only in its claimed severity validates to
\* the same issue.
C16_SeverityFromMessage ==
  issue_validated =>
    LET issue == val_result.value.v
        message_lower == lower(issue[k_message].v)
    IN /\ issue[k_severity].v =
            IF \E k \in 1..Len(blocking_errors) : contains(message_lower, blocking_errors[k])
            THEN s_error
            ELSE IF \E k \in 1..Len(security_issues) : contains(message_lower, security_issues[k])
                 THEN s_security
                 ELSE s_warning
       /\ \A sev \in optional(k_severity, ClaimedSeverities \cup {py_str(s_error), py_none}) :
             validate_issue(with_severity(val_issue, sev), val_file_path) = val_result

\* 'Syntax Error near eval', claimed 'low', was validated as an 'error'
C16_Witness ==
  /\ issue_validated
  /\ get(val_issue.v, k_message, py_none) = py_str(m_syntax_eval)
  /\ get(val_issue.v, k_severity, py_none) = py_str(s_low)
  /\ val_result.value.v[k_severity] = py_str(s_error)

\* C17: _validate_issue returns None for a record that is not a dict and for
\* a record whose lower-cased message contains a phrase of the denylist,
\* whatever the claimed severity and whatever keywords the message holds; it
\* accepts every other dict, returning a validated issue.
C17_RejectsOnlyDenylisted ==
  pc = "validated" =>
    IF ~is_dict(val_issue)
       \/ contains_any(lower(to_str(get(val_issue.v, k_message, py_str(s_empty)))), skip_phrases)
    THEN val_result = returned(py_none)
    ELSE val_result.status = "returned" /\ is_dict(val_result.value)

-----------------------------------------------------------------------------
(* Properties of _clean_and_parse_json, checked under SpecParse *)

\* C13: _clean_and_parse_json raises for no argument (an empty text, a value
\* that is no str, a text that is no JSON, JSON records that are no objects,
\* records whose line or column is no integer): it returns a list.
C13_NeverRaises ==
  pc = "parsed" => parsed_issues.status = "returned" /\ is_list(parsed_issues.value)

\* What pattern k recovers from the text: the issues of the span it finds, if
\* the span is JSON
recovered(k, s) ==
  LET match == re_search(k, s)
      data == IF match.found THEN json_loads(strip(match.group)) ELSE decode_error
  IN IF data.status = "returned" THEN extract_issues_from_data(data.value).value.v ELSE <<>>

\* C14: when the whole text is no JSON and none of the four patterns
\* recovers an issue, _clean_and_parse_json returns exactly one issue, of
\* severity 'error', line 1 and message 'Failed to parse AI response';
\* otherwise it returns the issues of the first pattern, in the order
\* array of objects, issues wrapper, object, array, that recovers one.
C14_FallbackOrder ==
  (pc = "parsed" /\ is_str(response_text) /\ json_loads(response_text.v).status = "raised") =>
    /\ parsed_issues.status = "returned"
    /\ LET result == parsed_issues.value.v IN
       IF \A k \in 1..4 : recovered(k, response_text.v) = <<>>
       THEN /\ Len(result) = 1
            /\ result[1].v[k_severity] = py_str(s_error)
            /\ result[1].v[k_line] = py_int(1)
            /\ result[1].v[k_message] = py_str(s_failed_to_parse)
       ELSE LET first == CHOOSE k \in 1..4 :
                           /\ recovered(k, response_text.v) # <<>>
                           /\ \A j \in 1..(k - 1) : recovered(j, response_text.v) = <<>>
            IN result = recovered(first, response_text.v)


\* The candidate records of a parsed value: the items of a list, the items of
\* the 'issues' list of a map, a map itself; an empty value has none
candidate_records(data) ==
  IF ~truthy(data) THEN <<>>
  ELSE IF is_list(data) THEN data.v
  ELSE IF is_dict(data) THEN
         IF k_issues \in DOMAIN data.v /\ is_list(data.v[k_issues])
         THEN data.v[k_issues].v ELSE <<data>>
  ELSE <<>>

\* The issues _validate_issue gives for the records it accepts, in order
RECURSIVE accepted_issues(_)
accepted_issues(records) ==
  IF records = <<>> THEN <<>>
  ELSE LET issue == validate_issue(Head(records), py_none) IN
       (IF issue.status = "returned" /\ truthy(issue.value) THEN <<issue.value>> ELSE <<>>)
       \o accepted_issues(Tail(records))

\* The whole text was parsed as one JSON value
whole_text_parsed ==
  /\ pc = "parsed"
  /\ is_str(response_text)
  /\ json_loads(response_text.v).status = "returned"

\* C27: when the whole text parses as one JSON value, _clean_and_parse_json
\* returns the validated issues of the records of that value and nothing
\* else: no pattern is tried and the 'Failed to parse AI response' issue is
\* not returned.
C27_FirstSuccessWins ==
  whole_text_parsed =>
    parsed_issues =
      returned(py_list(accepted_issues(candidate_records(json_loads(response_text.v).value))))

-----------------------------------------------------------------------------
(* Properties of _run_ai_analysis, checked under SpecRunAi *)

\* The model answered and _clean_and_parse_json recovered nothing from the
\* answer: it returned the 'Failed to parse AI response' issue alone
nothing_recovered ==
  /\ pc = "analyzed"
  /\ model_available
  /\ model_output.status = "returned"
  /\ parsed_issues = returned(py_list(<<failed_to_parse_issue>>))

\* C15: when no issue can be recovered from the text the model returned, the
\* list _run_ai_analysis returns holds the 'Failed to parse AI response'
\* issue: the malformed answer neither raises nor is lost.
C15_ParseFailureSurfaced ==
  nothing_recovered =>
    /\ ai_result.status = "returned"
    /\ \E i \in 1..Len(ai_result.value.v) :
          ai_result.value.v[i].v[k_message] = py_str(s_failed_to_parse)

\* C18: every issue _run_ai_analysis returns, on the path of the exception
\* handler too, has severity 'security' or 'error' and tool 'shard-ai'; an
\* issue validated as 'warning' is not returned.
C18_OnlyCritical ==
  pc = "analyzed" =>
    /\ ai_result.status = "returned"
    /\ is_list(ai_result.value)
    /\ \A i \in 1..Len(ai_result.value.v) :
          LET issue == ai_result.value.v[i].v IN
          /\ k_severity \in DOMAIN issue /\ k_tool \in DOMAIN issue
          /\ issue[k_severity] \in {py_str(s_security), py_str(s_error)}
          /\ issue[k_tool] = py_str(s_shard_ai)

\* Of two recovered issues the 'eval used' one was returned as 'security' and
\* the 'possible bug' one, a 'warning', was not
C18_Witness ==
  /\ pc = "analyzed"
  /\ model_output.status = "returned"
  /\ parsed_issues.status = "returned"
  /\ Len(parsed_issues.value.v) = 2
  /\ Len(ai_result.value.v) = 1
  /\ ai_result.value.v[1].v[k_message] = py_str(<<"e","v","a","l"," ","u","s","e","d">>)
  /\ ai_result.value.v[1].v[k_severity] = py_str(s_security)
  /\ ai_result.value.v[1].v[k_file] = py_str(<<"a",".","p","y">>)

\* C19: when the model cannot be loaded, or its invocation raises,
\* _run_ai_analysis returns an empty list and does not raise.
C19_FailureGivesNothing ==
  (pc = "analyzed" /\ (~model_available \/ model_output.status = "raised"))
    => ai_result = returned(py_list(<<>>))

-----------------------------------------------------------------------------
(* Properties of CodeReviewView.post, checked under SpecReview *)

\* Request r passed the checks of its input: post made its ModelRunner
passed_validation(r) == ai_runner[r] # no_runner

Verdicts == {"allow", "manual_review", "deny"}

\* C20: a request that passed the checks of its input (project id, repository
\* with a code file, model type) ends with a response that carries the
\* verdict generate_verdict computed; no error ends it without a verdict.
C20_ValidatedEndsWithVerdict ==
  \A r \in Requests :
    (pc[r] \in {"finally", "done"} /\ passed_validation(r)) =>
      /\ response[r].status = 200
      /\ "verdict" \in DOMAIN response[r].body
      /\ response[r].body.verdict \in Verdicts
      /\ response[r].body.verdict = verdict_result[r].verdict

\* Request r is being served: post was entered and has not returned
in_flight(r) == pc[r] \notin {"receive", "done"}

\* C23: the invocations of one model instance never overlap: two requests
\* whose runners hold the same instance taken from model_manager are never
\* both inside self.model(...); a request by itself runs it for one file at
\* a time.
C23_InvocationsSerialized ==
  \A r1, r2 \in Requests :
    (r1 # r2 /\ pc[r1] = "model_running" /\ pc[r2] = "model_running")
      => ai_runner[r1].model # ai_runner[r2].model

\* The model instances of a type that are alive: the one in the cache of the
\* manager and those the runners of the requests being served hold
alive_instances(model_type) ==
  (IF model_type \in DOMAIN loaded_models THEN {loaded_models[model_type]} ELSE {})
  \cup {ai_runner[r].model : r \in {q \in Requests :
          /\ in_flight(q)
          /\ ai_runner[q].model_type = model_type
          /\ ai_runner[q].model # no_model}}

\* C24: at every moment at most one loaded instance of a model type is
\* alive, in the cache or held by the runner of a request being served.
C24_OneInstanceAlive ==
  \A model_type \in ModelTypes : Cardinality(alive_instances(model_type)) <= 1

\* C28: every execution of post ends, on every exit path, with
\* model_manager.unload_all_models(): the step by which a request leaves post
\* leaves the cache of loaded models empty, so the cache is empty whenever a
\* request has finished and no request is being served.
C28_EveryExitUnloads ==
  [][\A r \in Requests :
       (pc[r] # "done" /\ pc'[r] = "done") => loaded_models' = empty_dict]_vars

\* A request that had loaded a model has finished, the other one is not
\* being served, and the cache is empty
C28_Witness ==
  \E r \in Requests :
    /\ pc[r] = "done"
    /\ ai_runner[r].model = model_instance(r)
    /\ response[r].status = 500
    /\ \A q \in Requests \ {r} : ~in_flight(q)
    /\ loaded_models = empty_dict

-----------------------------------------------------------------------------
(* Properties of _build_dependency_graph, checked under SpecGraph *)

\* The indices of the files other than current_file that match import_name
other_matches(import_name, current_file) ==
  {i \in 1..Len(files_info) :
     /\ files_info[i].path # current_file
     /\ import_matches(import_name, files_info, i)}

\* The number of imports of the files from index i on
RECURSIVE import_count(_)
import_count(i) ==
  IF i > Len(files_info) THEN 0
  ELSE Len(get(files_info[i], "imports", <<>>)) + import_count(i + 1)

\* C26: dependency edges are resolved only against other files; every import
\* name of every collected file gives at most one edge, to the first collected
\* file other than the importing file whose stem equals the import name or is
\* a suffix of it; no edge has 'from' equal to 'to'
C26_OnlyOtherFiles ==
  pc = "graph_built" =>
    /\ Len(dependencies) <= import_count(1)
    /\ \A k \in 1..Len(dependencies) :
         LET edge == dependencies[k]
             others == other_matches(edge.import, edge.from)
         IN  /\ edge.from # edge.to
             /\ others # {}
             /\ edge.to = files_info[lowest(others)].path


-----------------------------------------------------------------------------
(* Properties of get_enhanced_context_for_ai, checked under SpecContext *)

\* C25: the joined context is returned unchanged when its length is at most
\* max_context_length; otherwise the result is exactly its first
\* max_context_length characters followed by the marker '...[truncated]'
C25_TruncatedWithMarker ==
  pc = "context_returned" =>
    IF Len(full_context) <= max_context_length
      THEN enhanced_context = full_context
      ELSE /\ Len(enhanced_context) = max_context_length + Len(truncation_marker)
           /\ \A i \in 1..max_context_length : enhanced_context[i] = full_context[i]
           /\ \A j \in 1..Len(truncation_marker) :
                enhanced_context[max_context_length + j] = truncation_marker[j]

\* A context of several parts, longer than a positive max_context_length, came
\* back cut inside the separator of its parts and marked
C25_Witness ==
  /\ pc = "context_returned"
  /\ Len(context_parts) > 1
  /\ max_context_length = Len(context_parts[1]) + 1
  /\ Len(full_context) > max_context_length
  /\ enhanced_context = context_parts[1] \o <<"\n">> \o truncation_marker

====
